---------------------------- MODULE Spec2Model ----------------------------
(***************************************************************************)
(* CBMX blueprint editor: the draft/committed session controller (App),    *)
(* the grid's copy-on-write edit path (CBMXTable.updateBlueprint), the     *)
(* document mutators (cbmxMutators), the domain helpers (cbmxDomain) and   *)
(* the validator that gates save.                                          *)
(*                                                                         *)
(* Representation.  A string is a sequence of atoms: an atom is one        *)
(* character (" ", "(", ")", ",", a digit, a letter) or an opaque chunk    *)
(* of text that holds none of the characters the code inspects.  A JSON    *)
(* object is a record that carries, in "keys", the names of the            *)
(* properties it has, in insertion order; a property that is not in        *)
(* "keys" is undefined and its field holds the empty default.  Objects     *)
(* live in a heap of references, so that aliasing and copying differ.      *)
(***************************************************************************)
EXTENDS Integers, Sequences, FiniteSets, TLC

VARIABLES heap, blueprint, draft, last, nEdits

vars == <<heap, blueprint, draft, last, nEdits>>

(***************************************************************************)
(* Bounds of the model.                                                    *)
(***************************************************************************)
\* Number of grid edits (calls of updateBlueprint) explored in one behaviour.
MaxEdits == 1

-----------------------------------------------------------------------------
(***************************************************************************)
(* Sequences and strings.                                                  *)
(***************************************************************************)
Range(s) == {s[i] : i \in DOMAIN s}

\* Array.prototype.splice(i, 1), i counted from 1 here.
RemoveAt(s, i) == SubSeq(s, 1, i - 1) \o SubSeq(s, i + 1, Len(s))

\* Assignment obj[k] = v on the property list of an object: an existing
\* property keeps its place, a new one goes last.
SetKey(keys, k) == IF k \in Range(keys) THEN keys ELSE Append(keys, k)

IsWS(c) == c = " "

RECURSIVE TrimLeft(_)
TrimLeft(t) == IF t # <<>> /\ IsWS(Head(t)) THEN TrimLeft(Tail(t)) ELSE t

RECURSIVE TrimRight(_)
TrimRight(t) ==
  IF t # <<>> /\ IsWS(t[Len(t)]) THEN TrimRight(SubSeq(t, 1, Len(t) - 1)) ELSE t

\* String.prototype.trim
Trim(t) == TrimRight(TrimLeft(t))

\* A string literal of the source that holds no character the code inspects.
T(s) == <<s>>

-----------------------------------------------------------------------------
(***************************************************************************)
(* The document types (cbmxDomain) and the template (App).                 *)
(***************************************************************************)
CostBenefitTypes == {"Financial", "Environmental", "Social", "OtherNonFinancial"}

\* A KPI whose rank property is missing.
NoRank == -1

CBItem(type, description) == [type |-> type, description |-> description]

KPI(name, rank) == [name |-> name, rank |-> rank]

Service(name, operations) == [name |-> name, operations |-> operations]

Process(id, name, participantActorIds) ==
  [id |-> id, name |-> name, participantActorIds |-> participantActorIds]

ActorKeys ==
  <<"id", "type", "name", "actorValueProposition", "costs", "benefits", "kpis", "services">>

Actor(id, type, name, statement, costs, benefits, kpis, services) ==
  [isNull |-> FALSE, keys |-> ActorKeys, id |-> id, type |-> type, name |-> name,
   vp |-> statement, costs |-> costs, benefits |-> benefits, kpis |-> kpis,
   services |-> services]

\* An actor object with only the listed properties.
PartialActor(keys, id, type, name, statement, costs, benefits) ==
  [isNull |-> FALSE, keys |-> keys, id |-> id, type |-> type, name |-> name,
   vp |-> statement, costs |-> costs, benefits |-> benefits, kpis |-> <<>>,
   services |-> <<>>]

\* A null entry of an actors array.
NullActor ==
  [isNull |-> TRUE, keys |-> <<>>, id |-> <<>>, type |-> "", name |-> <<>>,
   vp |-> <<>>, costs |-> <<>>, benefits |-> <<>>, kpis |-> <<>>, services |-> <<>>]

BlueprintKeys == <<"meta", "networkValueProposition", "actors", "coCreationProcesses">>

Blueprint(keys, metaName, statement, actors, processes) ==
  [keys |-> keys, metaName |-> metaName, nvp |-> statement, actors |-> actors,
   processes |-> processes]

Has(obj, k) == k \in Range(obj.keys)

sampleBlueprint ==
  Blueprint(BlueprintKeys, T("Sample CBMX"),
    T("Deliver an integrated solution through a collaborative network."),
    << Actor(<<"A", "1">>, "Customer", <<"Actor 1", " ", "(", "Customer", ")">>,
             T("Provides demand, feedback, and adoption."),
             <<CBItem("Financial", T("Subscription fee"))>>,
             <<CBItem("Social", T("Improved accessibility"))>>,
             <<KPI(T("User satisfaction"), 1)>>,
             <<Service(T("Use service"), <<T("Request"), T("Rate")>>)>>),
       Actor(<<"A", "2">>, "Orchestrator", <<"Actor 2", " ", "(", "Orchestrator", ")">>,
             T("Coordinates actors and ensures service integration."),
             <<CBItem("OtherNonFinancial", T("Coordination effort"))>>,
             <<CBItem("Financial", T("Orchestration fee"))>>,
             <<KPI(T("Network adoption"), 1)>>,
             <<Service(T("Orchestration"), <<T("Matchmaking")>>)>>),
       Actor(<<"A", "3">>, "Other", T("Actor 3"),
             T("Provides complementary service capability."),
             <<CBItem("Environmental", T("Operational footprint"))>>,
             <<CBItem("Financial", T("Usage-based revenue"))>>,
             <<KPI(T("Utilization"), 1)>>,
             <<Service(T("Service delivery"), <<>>)>>),
       Actor(<<"A", "4">>, "Other", T("Actor 4"),
             T("Provides data/asset needed for delivery."),
             <<CBItem("Financial", T("Integration cost"))>>,
             <<CBItem("OtherNonFinancial", T("Reputation uplift"))>>,
             <<KPI(T("Data quality"), 1)>>,
             <<Service(T("Data provision"), <<T("Publish")>>)>>),
       Actor(<<"A", "5">>, "Other", T("Actor 5"),
             T("Provides support and maintenance."),
             <<CBItem("Social", T("On-call load"))>>,
             <<CBItem("Financial", T("Support contract margin"))>>,
             <<KPI(T("SLA compliance"), 1)>>,
             <<Service(T("Support"), <<T("Resolve incidents")>>)>>) >>,
    << Process(<<"P", "1">>, T("Onboarding"), <<<<"A", "1">>, <<"A", "2">>, <<"A", "4">>>>),
       Process(<<"P", "2">>, T("Service delivery"), <<<<"A", "1">>, <<"A", "2">>, <<"A", "3">>>>),
       Process(<<"P", "3">>, T("Support & improvement"),
               <<<<"A", "1">>, <<"A", "2">>, <<"A", "5">>>>) >>)


-----------------------------------------------------------------------------
(***************************************************************************)
(* JSON.stringify.  The text it writes is kept as a rope: a bracketed      *)
(* list of the texts of the members, in the order they are written (the    *)
(* properties of an object in insertion order, undefined properties left   *)
(* out).  The brackets and quotes of JSON make the nesting recoverable     *)
(* from the flat text, so two texts are equal exactly when their ropes     *)
(* are.  stableHash compares these texts.                                  *)
(***************************************************************************)
JsonString(t) == <<"\"", t, "\"">>

\* items: the texts of the elements, written with "," between them.
JsonArray(items) == <<"[", items, "]">>

\* members: the texts of the properties, written with "," between them.
JsonObject(members) == <<"{", members, "}">>

JsonMember(name, value) == <<JsonString(<<name>>), ":", value>>

JsonCBItem(c) ==
  JsonObject(<<JsonMember("type", JsonString(<<c.type>>)),
               JsonMember("description", JsonString(c.description))>>)

JsonKPI(k) ==
  JsonObject(<<JsonMember("name", JsonString(k.name))>>
             \o (IF k.rank = NoRank THEN <<>>
                 ELSE <<JsonMember("rank", ToString(k.rank))>>))

JsonService(s) ==
  JsonObject(<<JsonMember("name", JsonString(s.name)),
               JsonMember("operations",
                 JsonArray([i \in DOMAIN s.operations |->
                   JsonObject(<<JsonMember("name", JsonString(s.operations[i]))>>)]))>>)

JsonProcess(p) ==
  JsonObject(<<JsonMember("id", JsonString(p.id)),
               JsonMember("name", JsonString(p.name)),
               JsonMember("participantActorIds",
                 JsonArray([i \in DOMAIN p.participantActorIds |->
                   JsonString(p.participantActorIds[i])]))>>)

JsonActorValue(a, k) ==
  CASE k = "id" -> JsonString(a.id)
    [] k = "type" -> JsonString(<<a.type>>)
    [] k = "name" -> JsonString(a.name)
    [] k = "actorValueProposition" ->
         JsonObject(<<JsonMember("statement", JsonString(a.vp))>>)
    [] k = "costs" -> JsonArray([i \in DOMAIN a.costs |-> JsonCBItem(a.costs[i])])
    [] k = "benefits" -> JsonArray([i \in DOMAIN a.benefits |-> JsonCBItem(a.benefits[i])])
    [] k = "kpis" -> JsonArray([i \in DOMAIN a.kpis |-> JsonKPI(a.kpis[i])])
    [] k = "services" -> JsonArray([i \in DOMAIN a.services |-> JsonService(a.services[i])])

JsonActor(a) ==
  IF a.isNull THEN <<"null">>
  ELSE JsonObject([i \in DOMAIN a.keys |-> JsonMember(a.keys[i], JsonActorValue(a, a.keys[i]))])

JsonBlueprintValue(bp, k) ==
  CASE k = "meta" -> JsonObject(<<JsonMember("name", JsonString(bp.metaName))>>)
    [] k = "networkValueProposition" ->
         JsonObject(<<JsonMember("statement", JsonString(bp.nvp))>>)
    [] k = "actors" -> JsonArray([i \in DOMAIN bp.actors |-> JsonActor(bp.actors[i])])
    [] k = "coCreationProcesses" ->
         JsonArray([i \in DOMAIN bp.processes |-> JsonProcess(bp.processes[i])])

JsonStringify(bp) ==
  JsonObject([i \in DOMAIN bp.keys |-> JsonMember(bp.keys[i], JsonBlueprintValue(bp, bp.keys[i]))])

\* App: stableHash(obj) = JSON.stringify(obj).
stableHash(obj) == JsonStringify(obj)

\* deepClone(x) = JSON.parse(JSON.stringify(x)).  The round trip keeps the
\* properties an object has, in their order, and rebuilds every value under
\* them; a property the object does not have stays undefined.  The new
\* identity is the fresh heap reference the caller stores the value under.
CloneActor(a) ==
  IF a.isNull THEN NullActor
  ELSE [isNull   |-> FALSE,
        keys     |-> a.keys,
        id       |-> IF Has(a, "id") THEN a.id ELSE <<>>,
        type     |-> IF Has(a, "type") THEN a.type ELSE "",
        name     |-> IF Has(a, "name") THEN a.name ELSE <<>>,
        vp       |-> IF Has(a, "actorValueProposition") THEN a.vp ELSE <<>>,
        costs    |-> IF Has(a, "costs") THEN a.costs ELSE <<>>,
        benefits |-> IF Has(a, "benefits") THEN a.benefits ELSE <<>>,
        kpis     |-> IF Has(a, "kpis") THEN a.kpis ELSE <<>>,
        services |-> IF Has(a, "services") THEN a.services ELSE <<>>]

deepClone(x) ==
  Blueprint(x.keys,
            IF Has(x, "meta") THEN x.metaName ELSE <<>>,
            IF Has(x, "networkValueProposition") THEN x.nvp ELSE <<>>,
            IF Has(x, "actors") THEN [i \in DOMAIN x.actors |-> CloneActor(x.actors[i])]
                                ELSE <<>>,
            IF Has(x, "coCreationProcesses") THEN x.processes ELSE <<>>)


-----------------------------------------------------------------------------
(***************************************************************************)
(* The validator App imports from the grid module.  It returns its issues  *)
(* as data; "threw" records that the call ended in a TypeError instead.    *)
(***************************************************************************)
Issue(level, message) == [level |-> level, message |-> message]

\* (a?.id ?? "").trim()
ActorIdText(a) == Trim(IF a.isNull \/ ~Has(a, "id") THEN <<>> ELSE a.id)

\* Array.isArray(a.costs) && a.costs.some((c) => (c?.description ?? "").trim().length > 0)
HasAnyDescription(a, kind, items) ==
  Has(a, kind) /\ \E i \in DOMAIN items : Trim(items[i].description) # <<>>

HasAnyService(a) ==
  Has(a, "services") /\
  \E i \in DOMAIN a.services :
    \/ Trim(a.services[i].name) # <<>>
    \/ \E j \in DOMAIN a.services[i].operations : Trim(a.services[i].operations[j]) # <<>>

\* Variant of ActorIssues without the ids.has(id) test.
ActorIssues_noDuplicateCheck(bp, i) ==
  LET a    == bp.actors[i]
      id   == ActorIdText(a)
      warn(cond, text) == IF cond THEN <<Issue("warning", <<text>> \o id)>> ELSE <<>>
  IN IF id = <<>> THEN <<Issue("error", <<"An actor is missing an id.">>)>>
     ELSE warn(Trim(a.name) = <<>>, "has an empty name: ")
          \o warn(Trim(a.vp) = <<>>, "Value Proposition is empty: ")
          \o warn(~HasAnyDescription(a, "costs", a.costs), "has no costs: ")
          \o warn(~HasAnyDescription(a, "benefits", a.benefits), "has no benefits: ")
          \o warn(~HasAnyService(a), "has no services: ")

\* One pass of the loop over bp.actors, for the actor at position i; the
\* Set "ids" holds the trimmed non-empty ids of the actors before it.
ActorIssues(bp, i) ==
  LET a    == bp.actors[i]
      id   == ActorIdText(a)
      ids  == {ActorIdText(bp.actors[j]) : j \in 1..(i - 1)} \ {<<>>}
      warn(cond, text) == IF cond THEN <<Issue("warning", <<text>> \o id)>> ELSE <<>>
  IN IF id = <<>> THEN <<Issue("error", <<"An actor is missing an id.">>)>>
     ELSE (IF id \in ids THEN <<Issue("error", <<"Duplicate actor id: ">> \o id)>> ELSE <<>>)
          \o warn(Trim(a.name) = <<>>, "has an empty name: ")
          \o warn(Trim(a.vp) = <<>>, "Value Proposition is empty: ")
          \o warn(~HasAnyDescription(a, "costs", a.costs), "has no costs: ")
          \o warn(~HasAnyDescription(a, "benefits", a.benefits), "has no benefits: ")
          \o warn(~HasAnyService(a), "has no services: ")

RECURSIVE AllActorIssues(_, _)
AllActorIssues(bp, i) ==
  IF i > Len(bp.actors) THEN <<>> ELSE ActorIssues(bp, i) \o AllActorIssues(bp, i + 1)

\* The loop over the processes; actorIds holds the raw ids of the actors.
ProcessIssues(bp, p) ==
  LET actorIds == {bp.actors[j].id : j \in {k \in DOMAIN bp.actors : Has(bp.actors[k], "id")}}
      unknown  == SelectSeq(p.participantActorIds, LAMBDA pid : pid \notin actorIds)
  IN (IF Trim(p.name) = <<>>
        THEN <<Issue("warning", <<"A co-creation process has an empty name.">>)>> ELSE <<>>)
     \o [k \in DOMAIN unknown |->
           Issue("warning", <<"Co-creation process references unknown actor id ">> \o unknown[k])]

RECURSIVE AllProcessIssues(_, _)
AllProcessIssues(bp, i) ==
  IF i > Len(bp.processes) THEN <<>>
  ELSE ProcessIssues(bp, bp.processes[i]) \o AllProcessIssues(bp, i + 1)

\* bp.actors.map((a) => a.id) reads a property of every entry: a null
\* entry makes it throw, after the loop over the actors has run.
ValidateThrows(bp) ==
  Has(bp, "actors") /\ bp.actors # <<>> /\ \E i \in DOMAIN bp.actors : bp.actors[i].isNull

validateCBMXBlueprint(bp) ==
  LET head ==
        (IF Trim(bp.metaName) = <<>>
           THEN <<Issue("warning", <<"Blueprint name is empty (meta.name).">>)>> ELSE <<>>)
        \o (IF Trim(bp.nvp) = <<>>
              THEN <<Issue("warning", <<"Network Value Proposition is empty.">>)>> ELSE <<>>)
  IN IF ~Has(bp, "actors") \/ bp.actors = <<>>
       THEN [threw |-> FALSE,
             issues |-> head \o <<Issue("error", <<"Actors array is missing or empty.">>)>>]
     ELSE IF ValidateThrows(bp) THEN [threw |-> TRUE, issues |-> <<>>]
     ELSE [threw |-> FALSE,
           issues |-> head \o AllActorIssues(bp, 1)
                      \o (IF bp.processes = <<>>
                            THEN <<Issue("warning", <<"No co-creation processes defined.">>)>>
                            ELSE <<>>)
                      \o AllProcessIssues(bp, 1)]

Errors(issues) == SelectSeq(issues, LAMBDA x : x.level = "error")

\* Variant of hasBlockingOf that looks at the first issue only.
hasBlockingOf_firstIssue(bp) ==
  LET issues == validateCBMXBlueprint(bp).issues
  IN issues # <<>> /\ issues[1].level = "error"

\* App: issues.some((x) => x.level === "error")
hasBlockingOf(bp) == Errors(validateCBMXBlueprint(bp).issues) # <<>>


-----------------------------------------------------------------------------
(***************************************************************************)
(* Domain helpers (cbmxDomain).                                            *)
(***************************************************************************)
Min(S) == CHOOSE x \in S : \A y \in S : x <= y

Max(S) == CHOOSE x \in S : \A y \in S : x >= y

\* a[kind], with a missing list read as [].
ValueItems(a, kind) == IF kind = "costs" THEN a.costs ELSE a.benefits

\* a[kind] = arr
SetValueItems(a, kind, arr) ==
  IF kind = "costs"
    THEN [a EXCEPT !.costs = arr, !.keys = SetKey(@, "costs")]
    ELSE [a EXCEPT !.benefits = arr, !.keys = SetKey(@, "benefits")]

\* Variant of ensureMinCostBenefit that pads a list that has fewer than two
\* items.
ensureMinCostBenefit_padToTwo(a) ==
  [a EXCEPT !.keys = SetKey(SetKey(@, "costs"), "benefits"),
            !.costs = IF Len(@) < 2 THEN Append(@, CBItem("Financial", <<>>)) ELSE @,
            !.benefits = IF Len(@) < 2 THEN Append(@, CBItem("Financial", <<>>)) ELSE @]

\* Variant of ensureMinCostBenefit that makes the lists arrays and pushes
\* nothing.
ensureMinCostBenefit_noPad(a) ==
  [a EXCEPT !.keys = SetKey(SetKey(@, "costs"), "benefits")]

ensureMinCostBenefit(a) ==
  [a EXCEPT !.keys = SetKey(SetKey(@, "costs"), "benefits"),
            !.costs = IF Len(@) < 1 THEN <<CBItem("Financial", <<>>)>> ELSE @,
            !.benefits = IF Len(@) < 1 THEN <<CBItem("Financial", <<>>)>> ELSE @]

\* The positions (from 1) of the items of the given type, ascending.
indicesOfType(items, type) ==
  SelectSeq([i \in 1..Len(items) |-> i], LAMBDA i : items[i].type = type)

countOfType(items, type) == Cardinality({i \in DOMAIN items : items[i].type = type})

\* The match of /^(.*?)(?:\s*\((.*?)\))?\s*$/ on trimmed text: the lazy
\* first group ends before the white space in front of the first "(",
\* provided the text ends with ")" after it; the second group is what lies
\* between that "(" and the final ")".  Without such a pair the first group
\* is the whole text and the second is undefined.
MatchNameParen(line) ==
  LET trimmed == Trim(line)
      opens   == {i \in DOMAIN trimmed : trimmed[i] = "(" /\ i < Len(trimmed)}
  IN IF trimmed # <<>> /\ trimmed[Len(trimmed)] = ")" /\ opens # {}
       THEN [name |-> Trim(SubSeq(trimmed, 1, Min(opens) - 1)),
             raw  |-> Trim(SubSeq(trimmed, Min(opens) + 1, Len(trimmed) - 1))]
       ELSE [name |-> trimmed, raw |-> <<>>]

\* String.prototype.split(",")
RECURSIVE SplitComma(_)
SplitComma(t) ==
  LET commas == {i \in DOMAIN t : t[i] = ","}
  IN IF commas = {} THEN <<t>>
     ELSE <<SubSeq(t, 1, Min(commas) - 1)>> \o SplitComma(SubSeq(t, Min(commas) + 1, Len(t)))

\* raw.split(",").map((x) => x.trim()).filter(Boolean)
Tokens(raw) ==
  LET parts == SplitComma(raw)
  IN SelectSeq([i \in DOMAIN parts |-> Trim(parts[i])], LAMBDA x : x # <<>>)

parseServiceLine(line) ==
  LET m == MatchNameParen(line)
  IN Service(m.name, IF m.raw = <<>> THEN <<>> ELSE Tokens(m.raw))

\* String.prototype.toLowerCase on one atom.
LowerAtom(c) ==
  CASE c = "A" -> "a" [] c = "P" -> "p" [] c = "X" -> "x" [] c = "Y" -> "y"
    [] c = "Actor 1" -> "actor 1" [] c = "Actor 2" -> "actor 2"
    [] c = "Actor 3" -> "actor 3" [] c = "Actor 4" -> "actor 4"
    [] c = "Actor 5" -> "actor 5" [] c = "Customer" -> "customer"
    [] c = "Orchestrator" -> "orchestrator" [] c = "Click to edit" -> "click to edit"
    [] c = "Alice" -> "alice" [] c = "ALICE" -> "alice" [] c = "Bob" -> "bob"
    [] c = "Onboarding" -> "onboarding"
    [] OTHER -> c

Lower(t) == [i \in DOMAIN t |-> LowerAtom(t[i])]

\* The entries written to the lookup Map, in order: for every actor its
\* lower-cased trimmed id, then its lower-cased trimmed name, each mapped
\* to the actor's id.  A later entry with the same key replaces an earlier.
RECURSIVE LookupEntries(_, _)
LookupEntries(actorsIn, i) ==
  IF i > Len(actorsIn) THEN <<>>
  ELSE LET a == actorsIn[i]
       IN (IF a.isNull THEN <<>>
           ELSE << <<Lower(Trim(a.id)), a.id>>, <<Lower(Trim(a.name)), a.id>> >>)
          \o LookupEntries(actorsIn, i + 1)

\* lookup.get(key); an undefined result and an empty id are both falsy.
LookupGet(entries, key) ==
  LET hits == {k \in DOMAIN entries : entries[k][1] = key}
  IN IF hits = {} THEN <<>> ELSE entries[Max(hits)][2]

\* Variant of the token loop that pushes an id it has pushed before.
RECURSIVE ResolveTokens_keepDuplicates(_, _, _)
ResolveTokens_keepDuplicates(entries, tokens, acc) ==
  IF tokens = <<>> THEN acc
  ELSE LET id == LookupGet(entries, Lower(Head(tokens)))
       IN ResolveTokens_keepDuplicates(entries, Tail(tokens),
            IF id # <<>> THEN Append(acc, id) ELSE acc)

RECURSIVE ResolveTokens(_, _, _)
ResolveTokens(entries, tokens, acc) ==
  IF tokens = <<>> THEN acc
  ELSE LET id == LookupGet(entries, Lower(Head(tokens)))
       IN ResolveTokens(entries, Tail(tokens),
            IF id # <<>> /\ id \notin Range(acc) THEN Append(acc, id) ELSE acc)

parseProcessLine(line, actorsIn) ==
  LET m == MatchNameParen(line)
  IN IF m.raw = <<>> THEN [name |-> m.name, participantActorIds |-> <<>>]
     ELSE [name |-> m.name,
           participantActorIds |->
             ResolveTokens(LookupEntries(actorsIn, 1), Tokens(m.raw), <<>>)]


-----------------------------------------------------------------------------
(***************************************************************************)
(* Mutators (cbmxMutators).  Each takes the document "next" that           *)
(* updateBlueprint has cloned and returns it as the call leaves it.        *)
(***************************************************************************)
\* Variant of FindActor that falls back on the first actor.
FindActor_orFirst(next, actorId) ==
  LET hits == {i \in DOMAIN next.actors :
                 ~next.actors[i].isNull /\ Has(next.actors[i], "id")
                 /\ next.actors[i].id = actorId}
  IN IF hits = {} THEN 1 ELSE Min(hits)

\* next.actors.find((x) => x.id === actorId): the position of the first
\* actor with that id, 0 when there is none.
FindActor(next, actorId) ==
  LET hits == {i \in DOMAIN next.actors :
                 ~next.actors[i].isNull /\ Has(next.actors[i], "id")
                 /\ next.actors[i].id = actorId}
  IN IF hits = {} THEN 0 ELSE Min(hits)

setNetworkVP(next, statement) ==
  [next EXCEPT !.keys = SetKey(@, "networkValueProposition"), !.nvp = statement]

setActorName(next, actorId, name) ==
  LET i == FindActor(next, actorId)
  IN IF i = 0 THEN next
     ELSE [next EXCEPT !.actors[i].keys = SetKey(@, "name"), !.actors[i].name = name]

setActorVP(next, actorId, statement) ==
  LET i == FindActor(next, actorId)
  IN IF i = 0 THEN next
     ELSE [next EXCEPT !.actors[i].keys = SetKey(@, "actorValueProposition"),
                       !.actors[i].vp = statement]

\* Variant of setNthValueItem that stores the text as it was typed.
setNthValueItem_untrimmed(next, actorId, kind, type, slotIndex, description) ==
  LET i == FindActor(next, actorId)
  IN IF i = 0 THEN next
     ELSE
       LET a       == next.actors[i]
           arr     == ValueItems(a, kind)
           idxs    == indicesOfType(arr, type)
           cleaned == Trim(description)
       IN IF slotIndex < Len(idxs)
            THEN LET realIndex == idxs[slotIndex + 1]
                     arr2 == IF cleaned = <<>> THEN RemoveAt(arr, realIndex)
                             ELSE [arr EXCEPT ![realIndex] =
                                     [@ EXCEPT !.type = type, !.description = description]]
                 IN [next EXCEPT !.actors[i] =
                       ensureMinCostBenefit(SetValueItems(a, kind, arr2))]
          ELSE IF cleaned = <<>> THEN next
          ELSE [next EXCEPT !.actors[i] =
                  ensureMinCostBenefit(
                    SetValueItems(a, kind, Append(arr, CBItem(type, description))))]

\* Variant of setNthValueItem that takes the slot index for the position in
\* the list.
setNthValueItem_rawIndex(next, actorId, kind, type, slotIndex, description) ==
  LET i == FindActor(next, actorId)
  IN IF i = 0 THEN next
     ELSE
       LET a       == next.actors[i]
           arr     == ValueItems(a, kind)
           idxs    == indicesOfType(arr, type)
           cleaned == Trim(description)
       IN IF slotIndex < Len(idxs)
            THEN LET realIndex == slotIndex + 1
                     arr2 == IF cleaned = <<>> THEN RemoveAt(arr, realIndex)
                             ELSE [arr EXCEPT ![realIndex] =
                                     [@ EXCEPT !.type = type, !.description = cleaned]]
                 IN [next EXCEPT !.actors[i] =
                       ensureMinCostBenefit(SetValueItems(a, kind, arr2))]
          ELSE IF cleaned = <<>> THEN next
          ELSE [next EXCEPT !.actors[i] =
                  ensureMinCostBenefit(
                    SetValueItems(a, kind, Append(arr, CBItem(type, cleaned))))]

\* Variant of setNthValueItem that puts a new item at the head of the list.
setNthValueItem_prepend(next, actorId, kind, type, slotIndex, description) ==
  LET i == FindActor(next, actorId)
  IN IF i = 0 THEN next
     ELSE
       LET a       == next.actors[i]
           arr     == ValueItems(a, kind)
           idxs    == indicesOfType(arr, type)
           cleaned == Trim(description)
       IN IF slotIndex < Len(idxs)
            THEN LET realIndex == idxs[slotIndex + 1]
                     arr2 == IF cleaned = <<>> THEN RemoveAt(arr, realIndex)
                             ELSE [arr EXCEPT ![realIndex] =
                                     [@ EXCEPT !.type = type, !.description = cleaned]]
                 IN [next EXCEPT !.actors[i] =
                       ensureMinCostBenefit(SetValueItems(a, kind, arr2))]
          ELSE IF cleaned = <<>> THEN next
          ELSE [next EXCEPT !.actors[i] =
                  ensureMinCostBenefit(
                    SetValueItems(a, kind, <<CBItem(type, cleaned)>> \o arr))]

\* Variant of setNthValueItem that moves an overwritten item to the end of
\* the list.
setNthValueItem_moveToEnd(next, actorId, kind, type, slotIndex, description) ==
  LET i == FindActor(next, actorId)
  IN IF i = 0 THEN next
     ELSE
       LET a       == next.actors[i]
           arr     == ValueItems(a, kind)
           idxs    == indicesOfType(arr, type)
           cleaned == Trim(description)
       IN IF slotIndex < Len(idxs)
            THEN LET realIndex == idxs[slotIndex + 1]
                     arr2 == IF cleaned = <<>> THEN RemoveAt(arr, realIndex)
                             ELSE Append(RemoveAt(arr, realIndex), CBItem(type, cleaned))
                 IN [next EXCEPT !.actors[i] =
                       ensureMinCostBenefit(SetValueItems(a, kind, arr2))]
          ELSE IF cleaned = <<>> THEN next
          ELSE [next EXCEPT !.actors[i] =
                  ensureMinCostBenefit(
                    SetValueItems(a, kind, Append(arr, CBItem(type, cleaned))))]

\* slotIndex counts from 0, as in the source.
setNthValueItem(next, actorId, kind, type, slotIndex, description) ==
  LET i == FindActor(next, actorId)
  IN IF i = 0 THEN next
     ELSE
       LET a       == next.actors[i]
           arr     == ValueItems(a, kind)
           idxs    == indicesOfType(arr, type)
           cleaned == Trim(description)
       IN IF slotIndex < Len(idxs)
            THEN LET realIndex == idxs[slotIndex + 1]
                     arr2 == IF cleaned = <<>> THEN RemoveAt(arr, realIndex)
                             ELSE [arr EXCEPT ![realIndex] =
                                     [@ EXCEPT !.type = type, !.description = cleaned]]
                 IN [next EXCEPT !.actors[i] =
                       ensureMinCostBenefit(SetValueItems(a, kind, arr2))]
          ELSE IF cleaned = <<>> THEN next
          ELSE [next EXCEPT !.actors[i] =
                  ensureMinCostBenefit(
                    SetValueItems(a, kind, Append(arr, CBItem(type, cleaned))))]

addCostBenefitSlot(next, actorId, kind, type) ==
  LET i == FindActor(next, actorId)
  IN IF i = 0 THEN next
     ELSE LET a == next.actors[i]
          IN [next EXCEPT !.actors[i] =
                ensureMinCostBenefit(
                  SetValueItems(a, kind, Append(ValueItems(a, kind), CBItem(type, <<>>))))]

\* k.rank ?? d
RankOr(k, d) == IF k.rank = NoRank THEN d ELSE k.rank

\* kpis.slice().sort((x, y) => (x.rank ?? 999) - (y.rank ?? 999)): the sort
\* is stable, an item goes behind the items whose key is not greater.
RECURSIVE SortByRank(_)
SortByRank(kpis) ==
  IF kpis = <<>> THEN <<>>
  ELSE LET front == SortByRank(SubSeq(kpis, 1, Len(kpis) - 1))
           k     == kpis[Len(kpis)]
           n     == Cardinality({j \in DOMAIN front : RankOr(front[j], 999) <= RankOr(k, 999)})
       IN SubSeq(front, 1, n) \o <<k>> \o SubSeq(front, n + 1, Len(front))

getKpiSlotNameFlexible(a, slotIndex) ==
  LET sorted == SortByRank(a.kpis)
  IN IF slotIndex < Len(sorted) THEN sorted[slotIndex + 1].name ELSE <<>>

\* Variant of MaxRank that takes the number of KPIs for the largest rank.
MaxRank_byCount(kpis) == Len(kpis)

\* a.kpis.reduce((m, k) => Math.max(m, k.rank ?? 0), 0)
MaxRank(kpis) == Max({0} \cup {RankOr(kpis[j], 0) : j \in DOMAIN kpis})

setKpiSlotFlexible(next, actorId, slotIndex, name) ==
  LET i == FindActor(next, actorId)
  IN IF i = 0 THEN next
     ELSE
       LET a       == [next.actors[i] EXCEPT !.keys = SetKey(@, "kpis")]
           sorted  == SortByRank(a.kpis)
           cleaned == Trim(name)
       IN IF ~(slotIndex < Len(sorted))
            THEN IF cleaned = <<>> THEN [next EXCEPT !.actors[i] = a]
                 ELSE [next EXCEPT !.actors[i] =
                         [a EXCEPT !.kpis = Append(@, KPI(cleaned, MaxRank(a.kpis) + 1))]]
          ELSE
            LET target == sorted[slotIndex + 1]
                hits   == {j \in DOMAIN a.kpis :
                             RankOr(a.kpis[j], 0) = RankOr(target, 0)
                             /\ a.kpis[j].name = target.name}
            IN IF hits = {} THEN [next EXCEPT !.actors[i] = a]
               ELSE IF cleaned = <<>>
                 THEN [next EXCEPT !.actors[i] = [a EXCEPT !.kpis = RemoveAt(@, Min(hits))]]
               ELSE [next EXCEPT !.actors[i] =
                       [a EXCEPT !.kpis[Min(hits)].name = cleaned]]

addKpiSlot(next, actorId) ==
  LET i == FindActor(next, actorId)
  IN IF i = 0 THEN next
     ELSE [next EXCEPT !.actors[i].keys = SetKey(@, "kpis"),
                       !.actors[i].kpis = Append(@, KPI(<<>>, MaxRank(@) + 1))]

setServiceSlot(next, actorId, slotIndex, line) ==
  LET i == FindActor(next, actorId)
  IN IF i = 0 THEN next
     ELSE
       LET a       == [next.actors[i] EXCEPT !.keys = SetKey(@, "services")]
           arr     == a.services
           cleaned == Trim(line)
           parsed  == parseServiceLine(cleaned)
           removed == IF slotIndex < Len(arr) THEN RemoveAt(arr, slotIndex + 1) ELSE arr
       IN IF cleaned = <<>> \/ parsed.name = <<>>
            THEN [next EXCEPT !.actors[i] = [a EXCEPT !.services = removed]]
          ELSE IF slotIndex < Len(arr)
            THEN [next EXCEPT !.actors[i] = [a EXCEPT !.services[slotIndex + 1] = parsed]]
          ELSE [next EXCEPT !.actors[i] = [a EXCEPT !.services = Append(@, parsed)]]

addServiceSlot(next, actorId) ==
  LET i == FindActor(next, actorId)
  IN IF i = 0 THEN next
     ELSE [next EXCEPT !.actors[i].keys = SetKey(@, "services"),
                       !.actors[i].services = Append(@, Service(<<>>, <<>>))]

\* The decimal digits of n >= 0, as JavaScript prints a number.
RECURSIVE Digits(_)
Digits(n) == IF n < 10 THEN <<ToString(n)>> ELSE Digits(n \div 10) \o <<ToString(n % 10)>>

\* `P${n}`
ProcessId(n) == <<"P">> \o Digits(n)

setProcessSlot(next, slotIndex, line) ==
  LET arr     == next.processes
      cleaned == Trim(line)
      parsed  == parseProcessLine(cleaned, next.actors)
      keyed   == [next EXCEPT !.keys = SetKey(@, "coCreationProcesses")]
  IN IF cleaned = <<>>
       THEN [keyed EXCEPT !.processes =
               IF slotIndex < Len(arr) THEN RemoveAt(arr, slotIndex + 1) ELSE arr]
     ELSE IF slotIndex < Len(arr)
       THEN [keyed EXCEPT !.processes[slotIndex + 1] =
               [@ EXCEPT !.name = parsed.name,
                         !.participantActorIds = parsed.participantActorIds]]
     ELSE [keyed EXCEPT !.processes =
             Append(arr, Process(ProcessId(Len(arr) + 1), parsed.name,
                                 parsed.participantActorIds))]

addProcessSlot(next) ==
  [next EXCEPT !.keys = SetKey(@, "coCreationProcesses"),
               !.processes = Append(@, Process(ProcessId(Len(@) + 1), <<>>, <<>>))]

IsDigit(c) == c \in {"0", "1", "2", "3", "4", "5", "6", "7", "8", "9"}

DigitValue(c) ==
  CASE c = "0" -> 0 [] c = "1" -> 1 [] c = "2" -> 2 [] c = "3" -> 3 [] c = "4" -> 4
    [] c = "5" -> 5 [] c = "6" -> 6 [] c = "7" -> 7 [] c = "8" -> 8 [] c = "9" -> 9

\* Number(m[1]) on a run of digits.
RECURSIVE NumberOf(_)
NumberOf(ds) ==
  IF ds = <<>> THEN 0 ELSE 10 * NumberOf(SubSeq(ds, 1, Len(ds) - 1)) + DigitValue(ds[Len(ds)])

\* /^A(\d+)$/.exec(a.id)
MatchesActorId(a) ==
  /\ ~a.isNull /\ Has(a, "id") /\ Len(a.id) >= 2 /\ a.id[1] = "A"
  /\ \A j \in 2..Len(a.id) : IsDigit(a.id[j])

\* Variant of nextActorNumericId that numbers the new actor by the length of
\* the list.
nextActorNumericId_byCount(actors) == Len(actors) + 1

\* Variant of nextActorNumericId that takes the smallest number in place
\* of the largest.
nextActorNumericId_smallest(actors) ==
  Min({NumberOf(Tail(actors[i].id)) :
         i \in {j \in DOMAIN actors : MatchesActorId(actors[j])}} \cup {99}) + 1

nextActorNumericId(actors) ==
  Max({0} \cup {NumberOf(Tail(actors[i].id)) :
                  i \in {j \in DOMAIN actors : MatchesActorId(actors[j])}}) + 1

makeNewActor(id) ==
  Actor(id, "Other", T("Click to edit"), T("Click to edit"),
        <<CBItem("Financial", T("Click to edit"))>>,
        <<CBItem("Financial", T("Click to edit"))>>,
        <<>>,
        <<Service(T("Click to edit"), <<>>)>>)

\* The largest number of actors addActor lets a document reach.
MaxActors == 10

\* Variant of addActor that lets the list grow to one more than the limit.
addActor_offByOne(next) ==
  IF Len(next.actors) > MaxActors THEN [next EXCEPT !.keys = SetKey(@, "actors")]
  ELSE LET id == <<"A">> \o Digits(nextActorNumericId(next.actors))
       IN [next EXCEPT
             !.keys = SetKey(@, "actors"),
             !.actors = Append(@, makeNewActor(id)),
             !.processes = [k \in DOMAIN @ |->
               [@[k] EXCEPT !.participantActorIds =
                  IF id \in Range(@) THEN @ ELSE Append(@, id)]]]

\* Variant of addActor that appends the new id to every participant list
\* without looking whether the list has it.
addActor_alwaysJoin(next) ==
  IF Len(next.actors) >= MaxActors THEN [next EXCEPT !.keys = SetKey(@, "actors")]
  ELSE LET id == <<"A">> \o Digits(nextActorNumericId(next.actors))
       IN [next EXCEPT
             !.keys = SetKey(@, "actors"),
             !.actors = Append(@, makeNewActor(id)),
             !.processes = [k \in DOMAIN @ |->
               [@[k] EXCEPT !.participantActorIds = Append(@, id)]]]

\* A missing actors list becomes [] first; a document without processes
\* has the empty list of them here.
addActor(next) ==
  IF Len(next.actors) >= MaxActors THEN [next EXCEPT !.keys = SetKey(@, "actors")]
  ELSE LET id == <<"A">> \o Digits(nextActorNumericId(next.actors))
       IN [next EXCEPT
             !.keys = SetKey(@, "actors"),
             !.actors = Append(@, makeNewActor(id)),
             !.processes = [k \in DOMAIN @ |->
               [@[k] EXCEPT !.participantActorIds =
                  IF id \in Range(@) THEN @ ELSE Append(@, id)]]]

\* Variant of removeActor without the guard on the first two positions.
removeActor_unguarded(next, actorId) ==
  LET idx == FindActor(next, actorId)
  IN IF Len(next.actors) <= 2 \/ idx = 0
       THEN [next EXCEPT !.keys = SetKey(@, "actors")]
     ELSE [next EXCEPT
             !.actors = SelectSeq(@, LAMBDA a : ~(Has(a, "id") /\ a.id = actorId)),
             !.processes = [k \in DOMAIN @ |->
               [@[k] EXCEPT !.participantActorIds =
                  SelectSeq(@, LAMBDA id : id # actorId)]]]

\* idx is the position from 1 here, 0 when findIndex returns -1.
\* Variant of removeActor that leaves the participant lists alone.
removeActor_keepParticipants(next, actorId) ==
  LET idx == FindActor(next, actorId)
  IN IF Len(next.actors) <= 2 \/ idx = 0 \/ idx = 1 \/ idx = 2
       THEN [next EXCEPT !.keys = SetKey(@, "actors")]
     ELSE [next EXCEPT
             !.actors = SelectSeq(@, LAMBDA a : ~(Has(a, "id") /\ a.id = actorId))]

removeActor(next, actorId) ==
  LET idx == FindActor(next, actorId)
  IN IF Len(next.actors) <= 2 \/ idx = 0 \/ idx = 1 \/ idx = 2
       THEN [next EXCEPT !.keys = SetKey(@, "actors")]
     ELSE [next EXCEPT
             !.actors = SelectSeq(@, LAMBDA a : ~(Has(a, "id") /\ a.id = actorId)),
             !.processes = [k \in DOMAIN @ |->
               [@[k] EXCEPT !.participantActorIds =
                  SelectSeq(@, LAMBDA id : id # actorId)]]]


-----------------------------------------------------------------------------
(***************************************************************************)
(* The session (App): the heap of documents and the two pieces of React    *)
(* state, "blueprint" (committed) and "draft".                             *)
(***************************************************************************)
Refs == {"sample", "obj1", "obj2", "obj3", "obj4"}

Session(h, b, d) == [heap |-> h, blueprint |-> b, draft |-> d]

\* The object behind a reference: "sample" is the module constant
\* sampleBlueprint, the others are the objects JSON.parse has made.
Obj(st, ref) == IF ref = "sample" THEN sampleBlueprint ELSE st.heap[ref]

\* A reference no object of the session is stored under.
NewRef(st) == CHOOSE r \in Refs \ {"sample"} : r \notin DOMAIN st.heap

\* The session after a new object with value doc came to exist under ref.
Put(st, ref, doc) ==
  [st EXCEPT !.heap = [r \in DOMAIN @ \cup {ref} |-> IF r = ref THEN doc ELSE @[r]]]

setBlueprint(st, ref) == [st EXCEPT !.blueprint = ref]

setDraft(st, ref) == [st EXCEPT !.draft = ref]

\* Objects no state refers to are collected, the others renamed to a fixed
\* name.
Collect(st) ==
  LET b == IF st.blueprint = "sample" THEN "sample" ELSE "obj1"
      d == IF st.draft = "sample" THEN "sample"
           ELSE IF st.draft = st.blueprint THEN b ELSE "obj2"
  IN Session([r \in {b, d} \ {"sample"} |->
                IF r = b THEN st.heap[st.blueprint] ELSE st.heap[st.draft]],
             b, d)

Now == Session(heap, blueprint, draft)

Committed == Obj(Now, blueprint)

Draft == Obj(Now, draft)

\* App: isDirty = draftHash !== blueprintHash
isDirtyOf(st) == stableHash(Obj(st, st.draft)) # stableHash(Obj(st, st.blueprint))

isDirty == isDirtyOf(Now)

\* App: issues = validateCBMXBlueprint(draft); hasBlocking
hasBlocking == hasBlockingOf(Draft)

newBlueprint(st) ==
  LET fresh == NewRef(st)
      s1    == Put(st, fresh, deepClone(Obj(st, "sample")))
      copy  == NewRef(s1)
      s2    == Put(s1, copy, deepClone(Obj(s1, fresh)))
  IN setDraft(setBlueprint(s2, fresh), copy)

\* Variant of saveDraft without the hasBlocking guard.
saveDraft_unguarded(st) ==
  LET committed == NewRef(st)
      s1        == Put(st, committed, deepClone(Obj(st, st.draft)))
      copy      == NewRef(s1)
      s2        == Put(s1, copy, deepClone(Obj(s1, committed)))
  IN setDraft(setBlueprint(s2, committed), copy)

saveDraft(st) ==
  IF hasBlockingOf(Obj(st, st.draft)) THEN st
  ELSE LET committed == NewRef(st)
           s1        == Put(st, committed, deepClone(Obj(st, st.draft)))
           copy      == NewRef(s1)
           s2        == Put(s1, copy, deepClone(Obj(s1, committed)))
       IN setDraft(setBlueprint(s2, committed), copy)

\* Variant of discardDraft that hands out the committed object itself.
discardDraft_alias(st) == setDraft(st, st.blueprint)

discardDraft(st) ==
  LET copy == NewRef(st)
  IN setDraft(Put(st, copy, deepClone(Obj(st, st.blueprint))), copy)

\* Variant of onChange wired to the committed state.
onChange_setBlueprint(st, next) == setBlueprint(st, next)

\* <CBMXTable blueprint={draft} onChange={setDraft} />
onChange(st, next) == setDraft(st, next)

\* The closure a cell or a button hands to updateBlueprint: the mutator it
\* calls and the arguments it binds.
Call(op, actorId, kind, type, slotIndex, text) ==
  [op |-> op, actorId |-> actorId, kind |-> kind, type |-> type,
   slotIndex |-> slotIndex, text |-> text]

\* mutator(next)
Mutate(call, next) ==
  CASE call.op = "setNetworkVP" -> setNetworkVP(next, call.text)
    [] call.op = "setActorName" -> setActorName(next, call.actorId, call.text)
    [] call.op = "setActorVP" -> setActorVP(next, call.actorId, call.text)
    [] call.op = "setNthValueItem" ->
         setNthValueItem(next, call.actorId, call.kind, call.type, call.slotIndex, call.text)
    [] call.op = "setKpiSlotFlexible" ->
         setKpiSlotFlexible(next, call.actorId, call.slotIndex, call.text)
    [] call.op = "setServiceSlot" ->
         setServiceSlot(next, call.actorId, call.slotIndex, call.text)
    [] call.op = "setProcessSlot" -> setProcessSlot(next, call.slotIndex, call.text)
    [] call.op = "addActor" -> addActor(next)
    [] call.op = "removeActor" -> removeActor(next, call.actorId)

\* CBMXTable.updateBlueprint: the mutator runs on a clone of the draft, and
\* the clone is handed to onChange as it is.
updateBlueprint(st, mutator) ==
  LET next == NewRef(st)
  IN onChange(Put(st, next, Mutate(mutator, deepClone(Obj(st, st.draft)))), next)

(***************************************************************************)
(* Import.  A file is what JSON.parse makes of its text: a syntax error,   *)
(* or a value; an object value is a document in the representation above.  *)
(***************************************************************************)
File(name, wellFormed, kind, doc) ==
  [name |-> name, wellFormed |-> wellFormed, kind |-> kind, doc |-> doc]

ImportFiles ==
  LET
    \* A file that holds no object.
    NoDoc == Blueprint(<<>>, <<>>, <<>>, <<>>, <<>>)
    \* The template with its top-level properties written in another order.
    ReorderedDoc ==
      [sampleBlueprint EXCEPT
         !.keys = <<"meta", "actors", "networkValueProposition", "coCreationProcesses">>]
    \* {"meta": {"name": "n"}, "actors": [null]}
    NullActorDoc == Blueprint(<<"meta", "actors">>, T("n"), <<>>, <<NullActor>>, <<>>)
    \* {"meta": ..., "actors": []}
    EmptyActorsDoc == Blueprint(<<"meta", "actors">>, T("n"), <<>>, <<>>, <<>>)
    \* Three actors without cost and benefit lists; the validator has only
    \* warnings for it.
    NoCostsDoc ==
      Blueprint(<<"meta", "actors">>, T("n"), <<>>,
        << PartialActor(<<"id", "name">>, <<"A", "1">>, "", T("a"), <<>>, <<>>, <<>>),
           PartialActor(<<"id", "name", "costs">>, <<"A", "2">>, "", T("b"), <<>>, <<>>, <<>>),
           PartialActor(<<"id", "name">>, <<"A", "3">>, "", T("c"), <<>>, <<>>, <<>>) >>,
        <<>>)
  IN
    { File("garbage.txt", FALSE, "none", NoDoc),
      File("no-actors.json", TRUE, "object", Blueprint(<<"meta">>, T("n"), <<>>, <<>>, <<>>)),
      File("reordered.json", TRUE, "object", ReorderedDoc),
      File("null-actor.json", TRUE, "object", NullActorDoc),
      File("empty-actors.json", TRUE, "object", EmptyActorsDoc),
      File("no-costs.json", TRUE, "object", NoCostsDoc),
      File("duplicate-id.json", TRUE, "object",
           Blueprint(<<"meta", "actors">>, T("n"), <<>>,
             << Actor(<<"A", "1">>, "Customer", T("a"), T("v"),
                      <<CBItem("Financial", T("c"))>>, <<CBItem("Financial", T("b"))>>,
                      <<>>, <<>>),
                Actor(<<"A", "1">>, "Orchestrator", T("b"), T("w"),
                      <<CBItem("Financial", T("d"))>>, <<CBItem("Financial", T("e"))>>,
                      <<>>, <<>>) >>,
             <<>>)) }

FileNamed(name) == CHOOSE f \in ImportFiles : f.name = name

\* Variant of the shape check that only rejects values that are no object.
FailsShapeCheck_objectOnly(file) == file.kind # "object"

\* !candidate || !Array.isArray(candidate.actors)
FailsShapeCheck(file) == file.kind # "object" \/ ~Has(file.doc, "actors")

\* How handleImportFile ends on a file.
ImportOutcome(file) ==
  IF ~file.wellFormed \/ FailsShapeCheck(file) THEN "aborted"
  ELSE IF validateCBMXBlueprint(file.doc).threw THEN "threw"
  ELSE "loaded"

handleImportFile(st, file) ==
  IF ImportOutcome(file) # "loaded" THEN st
  ELSE LET copy == NewRef(st)
       IN setDraft(Put(st, copy, deepClone(file.doc)), copy)


-----------------------------------------------------------------------------
(***************************************************************************)
(* The state machine.  "last" records the handler that ran last and how    *)
(* it ended; "nEdits" counts the calls of updateBlueprint.                 *)
(***************************************************************************)
Event(op, outcome, confirmed, file) ==
  [op |-> op, outcome |-> outcome, confirmed |-> confirmed, file |-> file]

Init ==
  /\ heap = [r \in {"obj2"} |-> deepClone(sampleBlueprint)]
  /\ blueprint = "sample"
  /\ draft = "obj2"
  /\ last = Event("init", "none", FALSE, "")
  /\ nEdits = 0

\* The handler has run and React holds the new state.
Render(st, event) ==
  LET kept == Collect(st)
  IN /\ heap' = kept.heap
     /\ blueprint' = kept.blueprint
     /\ draft' = kept.draft
     /\ last' = event

\* The inputs the user gives to the grid.  The cells edited are those of
\* the actors in these columns; slot indexes count from 0.
EditColumns == {3}

EditTargets == {Draft.actors[p].id : p \in EditColumns \cap DOMAIN Draft.actors}

EditTexts == {<<>>, T("x")}

EditSlots == {0, 1}

\* updateBlueprint may be called once more within the bound.
CanEdit == nEdits < MaxEdits

\* A cell or a button of the grid has called updateBlueprint with mutator op.
Edited(op) == Event(op, "applied", FALSE, "")

OnCommitNetworkVP ==
  /\ CanEdit
  /\ \E v \in EditTexts :
       Render(updateBlueprint(Now, Call("setNetworkVP", <<>>, "", "", 0, v)),
              Edited("setNetworkVP"))
  /\ nEdits' = nEdits + 1

OnCommitActorName ==
  /\ CanEdit
  /\ \E id \in EditTargets, v \in EditTexts :
       Render(updateBlueprint(Now, Call("setActorName", id, "", "", 0, v)),
              Edited("setActorName"))
  /\ nEdits' = nEdits + 1

OnCommitActorVP ==
  /\ CanEdit
  /\ \E id \in EditTargets, v \in EditTexts :
       Render(updateBlueprint(Now, Call("setActorVP", id, "", "", 0, v)),
              Edited("setActorVP"))
  /\ nEdits' = nEdits + 1

OnCommitValueItem ==
  /\ CanEdit
  /\ \E id \in EditTargets, kind \in {"costs", "benefits"}, type \in {"Financial"},
        i \in EditSlots, v \in EditTexts :
       Render(updateBlueprint(Now, Call("setNthValueItem", id, kind, type, i, v)),
              Edited("setNthValueItem"))
  /\ nEdits' = nEdits + 1

OnCommitKpi ==
  /\ CanEdit
  /\ \E id \in EditTargets, i \in EditSlots, v \in EditTexts :
       Render(updateBlueprint(Now, Call("setKpiSlotFlexible", id, "", "", i, v)),
              Edited("setKpiSlotFlexible"))
  /\ nEdits' = nEdits + 1

OnCommitService ==
  /\ CanEdit
  /\ \E id \in EditTargets, i \in EditSlots, v \in {<<>>, <<"S", " ", "(", "o", ")">>} :
       Render(updateBlueprint(Now, Call("setServiceSlot", id, "", "", i, v)),
              Edited("setServiceSlot"))
  /\ nEdits' = nEdits + 1

OnCommitProcess ==
  /\ CanEdit
  /\ \E i \in EditSlots, v \in {<<>>, <<"Q", " ", "(", "Actor 3", ",", "zz", ")">>} :
       Render(updateBlueprint(Now, Call("setProcessSlot", <<>>, "", "", i, v)),
              Edited("setProcessSlot"))
  /\ nEdits' = nEdits + 1

OnClickAddActor ==
  /\ CanEdit
  /\ Render(updateBlueprint(Now, Call("addActor", <<>>, "", "", 0, <<>>)), Edited("addActor"))
  /\ nEdits' = nEdits + 1

\* The remove button: window.confirm, then updateBlueprint when the user
\* agreed.
OnClickRemoveActor ==
  LET \* normalizeActors gives the type "Other" to every column after the
      \* second; the grid shows the remove button in those columns only.
      RemoveTargets ==
        {Draft.actors[p].id : p \in {q \in EditColumns \cap DOMAIN Draft.actors : q > 2}}
  IN
  /\ \E id \in RemoveTargets, ok \in BOOLEAN :
       IF ok
         THEN /\ CanEdit
              /\ nEdits' = nEdits + 1
              /\ Render(updateBlueprint(Now, Call("removeActor", id, "", "", 0, <<>>)),
                        Event("removeActor", "applied", TRUE, ""))
         ELSE /\ Render(Now, Event("removeActor", "cancelled", FALSE, ""))
              /\ UNCHANGED nEdits

\* The handlers of the header buttons.  A handler is modelled with its own
\* guard; the "disabled" attribute of a button is not.
OnClickNew ==
  /\ Render(newBlueprint(Now), Event("newBlueprint", "done", FALSE, ""))
  /\ UNCHANGED nEdits

OnClickSave ==
  /\ Render(saveDraft(Now),
            Event("saveDraft", IF hasBlocking THEN "blocked" ELSE "committed", FALSE, ""))
  /\ UNCHANGED nEdits

OnClickDiscard ==
  /\ Render(discardDraft(Now), Event("discardDraft", "done", FALSE, ""))
  /\ UNCHANGED nEdits

OnImportFile ==
  \E file \in ImportFiles :
    /\ Render(handleImportFile(Now, file),
              Event("handleImportFile", ImportOutcome(file), FALSE, file.name))
    /\ UNCHANGED nEdits

Next ==
  \/ OnCommitNetworkVP
  \/ OnCommitActorName
  \/ OnCommitActorVP
  \/ OnCommitValueItem
  \/ OnCommitKpi
  \/ OnCommitService
  \/ OnCommitProcess
  \/ OnClickAddActor
  \/ OnClickRemoveActor
  \/ OnClickNew
  \/ OnClickSave
  \/ OnClickDiscard
  \/ OnImportFile

Spec == Init /\ [][Next]_vars


-----------------------------------------------------------------------------
(***************************************************************************)
(* Properties of the session.                                              *)
(***************************************************************************)
EditOps ==
  {"setNetworkVP", "setActorName", "setActorVP", "setNthValueItem", "setKpiSlotFlexible",
   "setServiceSlot", "setProcessSlot", "addActor", "removeActor"}

\* The file of the last import.
LastFile == FileNamed(last.file)

\* The file's text is JSON for an object that has an actors array.
HasActorsArray(f) == f.wellFormed /\ f.kind = "object" /\ "actors" \in Range(f.doc.keys)

\* isDirty as the render after the step computes it.
DirtyAfter == isDirtyOf(Session(heap', blueprint', draft'))

\* Deep value equality of two objects: the same properties with the same
\* values, lists compared in order.
SameActor(a, b) ==
  /\ a.isNull = b.isNull
  /\ Range(a.keys) = Range(b.keys)
  /\ [a EXCEPT !.keys = <<>>] = [b EXCEPT !.keys = <<>>]

StructurallyEqual(x, y) ==
  /\ Range(x.keys) = Range(y.keys)
  /\ x.metaName = y.metaName
  /\ x.nvp = y.nvp
  /\ x.processes = y.processes
  /\ Len(x.actors) = Len(y.actors)
  /\ \A i \in DOMAIN x.actors : SameActor(x.actors[i], y.actors[i])

\* C1: save with at least one error-level issue in the draft changes
\* neither committed nor draft; save with none (warnings allowed) makes
\* committed a value-equal copy of the draft, the draft an independent
\* value-equal copy, and leaves the session not dirty.
C1_SaveGatedByErrors ==
  [][ last'.op = "saveDraft" =>
        IF Errors(validateCBMXBlueprint(Draft).issues) # <<>>
          THEN /\ UNCHANGED <<heap, blueprint, draft>>
               /\ last'.outcome = "blocked"
          ELSE /\ Committed' = Draft
               /\ Draft' = Draft
               /\ draft' # blueprint'
               /\ ~DirtyAfter
               /\ last'.outcome = "committed" ]_vars

\* A save went through on a draft that had warnings and differed from the
\* template.
C1_Witness ==
  /\ last.op = "saveDraft"
  /\ last.outcome = "committed"
  /\ validateCBMXBlueprint(Committed).issues # <<>>
  /\ Committed # sampleBlueprint

\* C2: in every reachable state the committed document has zero validator
\* errors.
C2_CommittedHasNoErrors ==
  /\ ~validateCBMXBlueprint(Committed).threw
  /\ Errors(validateCBMXBlueprint(Committed).issues) = <<>>

\* The draft has errors while a committed document other than the template
\* is held.
C2_Witness ==
  /\ Errors(validateCBMXBlueprint(Draft).issues) # <<>>
  /\ Committed # sampleBlueprint

\* C3: every edit through the grid, no-op or not, leaves the committed
\* document as it was; committed changes only at save and at new.
C3_EditsTouchOnlyDraft ==
  [][ /\ (last'.op \in EditOps => Committed' = Committed /\ blueprint' = blueprint)
      /\ (Committed' # Committed \/ blueprint' # blueprint
            => last'.op \in {"saveDraft", "newBlueprint"}) ]_vars

\* An edit has made the draft differ from a committed document that is not
\* the template.
C3_Witness ==
  /\ last.op \in EditOps
  /\ last.outcome = "applied"
  /\ Draft # Committed
  /\ Committed # sampleBlueprint

\* C4: importing a JSON object that has an actors array replaces the draft
\* by a copy of the parsed input, errors or not, and leaves committed as it
\* was; save has no effect while the draft has an error.
C4_ImportReplacesDraft ==
  [][ /\ (last'.op = "handleImportFile" /\ HasActorsArray(FileNamed(last'.file))
            => /\ Draft' = FileNamed(last'.file).doc
               /\ Committed' = Committed
               /\ blueprint' = blueprint)
      /\ (last'.op = "saveDraft" /\ Errors(validateCBMXBlueprint(Draft).issues) # <<>>
            => UNCHANGED <<heap, blueprint, draft>>) ]_vars

\* C5: when the imported text is not valid JSON, or parses to a value
\* without an actors array, the import aborts and draft and committed are
\* what they were.
C5_FailedImportChangesNothing ==
  [][ last'.op = "handleImportFile" /\ ~HasActorsArray(FileNamed(last'.file))
        => /\ UNCHANGED <<heap, blueprint, draft>>
           /\ last'.outcome = "aborted" ]_vars

\* An import of an object without an actors array was aborted while the
\* session held unsaved changes.
C5_Witness ==
  /\ last.op = "handleImportFile"
  /\ last.file = "no-actors.json"
  /\ last.outcome = "aborted"
  /\ Draft # Committed

\* C6: import accepts every JSON object that has an actors array: the
\* draft is replaced by it and the validator returns its problems as
\* issues, it never throws.
C6_ImportNeverThrows ==
  last.op = "handleImportFile" /\ HasActorsArray(LastFile)
    => /\ last.outcome = "loaded"
       /\ ~validateCBMXBlueprint(LastFile.doc).threw
       /\ Draft = LastFile.doc

\* C7: discard sets the draft to an independent copy of committed: draft
\* equals committed by value, committed is unchanged, the session is not
\* dirty, and an edit after it does not alter committed.
C7_DiscardCopiesCommitted ==
  [][ /\ (last'.op = "discardDraft"
            => /\ Draft' = Committed
               /\ Committed' = Committed
               /\ blueprint' = blueprint
               /\ draft' # blueprint'
               /\ ~DirtyAfter)
      /\ (last.op = "discardDraft" /\ last'.op \in EditOps => Committed' = Committed) ]_vars

\* A discard has run on a session whose committed document is not the
\* template, after an edit.
C7_Witness ==
  /\ last.op = "discardDraft"
  /\ nEdits > 0
  /\ Committed # sampleBlueprint

\* C8: the session is dirty exactly when draft and committed are not
\* structurally equal.
C8_DirtyIffNotEqual == isDirty <=> ~StructurallyEqual(Draft, Committed)

\* C9: new replaces committed and draft by independent fresh copies of the
\* template and leaves the session not dirty; when the draft is dirty it
\* does so only after the user has confirmed.
C9_NewResetsAfterConfirm ==
  [][ last'.op = "newBlueprint"
        => /\ Committed' = sampleBlueprint
           /\ Draft' = sampleBlueprint
           /\ blueprint' # "sample"
           /\ draft' \notin {"sample", blueprint'}
           /\ ~DirtyAfter
           /\ (isDirty => last'.confirmed) ]_vars

\* C10: after any mutator has run on the draft, every actor of the draft
\* has at least one cost and at least one benefit.
C10_MinOneCostAndBenefit ==
  last.op \in EditOps /\ last.outcome = "applied"
    => \A i \in DOMAIN Draft.actors :
         Len(Draft.actors[i].costs) >= 1 /\ Len(Draft.actors[i].benefits) >= 1

\* The number of actors of a document that have the given role.
RoleCount(bp, role) ==
  Cardinality({i \in DOMAIN bp.actors : bp.actors[i].type = role})

\* C11: in every reachable state the committed document has exactly one
\* actor with role Customer and exactly one with role Orchestrator, the
\* Customer at position 0 and the Orchestrator at position 1.
C11_CommittedRolesByPosition ==
  /\ RoleCount(Committed, "Customer") = 1
  /\ RoleCount(Committed, "Orchestrator") = 1
  /\ Len(Committed.actors) >= 2
  /\ Committed.actors[1].type = "Customer"
  /\ Committed.actors[2].type = "Orchestrator"

-----------------------------------------------------------------------------
(***************************************************************************)
(* normalizeActors (cbmxDomain) and a specification that applies it.  The  *)
(* input lists are lists of actor objects of every role, with their lists  *)
(* present, empty or missing; the specification normalizes the list it     *)
(* holds, again and again, each time with a desired count of its choice.   *)
(* "blueprint" keeps the input list, "draft" the latest output.            *)
(***************************************************************************)
\* The optional parameter actorCount: a number, or undefined.
Count(n) == [given |-> TRUE, n |-> n]

NoCount == [given |-> FALSE, n |-> 0]

\* Math.max(0, Math.min(actorCount ?? safeIn.length, safeIn.length))
NormalizedLength(actorsIn, actorCount) ==
  Max({0, Min({IF actorCount.given THEN actorCount.n ELSE Len(actorsIn), Len(actorsIn)})})

\* The role normalizeActors writes at a position (from 1).
RoleAt(i) == IF i = 1 THEN "Customer" ELSE IF i = 2 THEN "Orchestrator" ELSE "Other"

\* One entry of the map in normalizeActors: the spread keeps the actor's
\* properties in their order, the five named properties are set (appended
\* when the actor has none), then type is assigned and the lists are padded.
NormalizedActor(a, role) ==
  ensureMinCostBenefit(
    [isNull   |-> FALSE,
     keys     |-> SetKey(SetKey(SetKey(SetKey(SetKey(SetKey(a.keys,
                    "actorValueProposition"), "costs"), "benefits"), "kpis"),
                    "services"), "type"),
     id       |-> a.id,
     type     |-> role,
     name     |-> a.name,
     vp       |-> IF Has(a, "actorValueProposition") THEN a.vp ELSE <<>>,
     costs    |-> IF Has(a, "costs") THEN a.costs ELSE <<>>,
     benefits |-> IF Has(a, "benefits") THEN a.benefits ELSE <<>>,
     kpis     |-> IF Has(a, "kpis") THEN a.kpis ELSE <<>>,
     services |-> IF Has(a, "services") THEN a.services ELSE <<>>])

\* Variant of normalizeActors that keeps the role the input has wherever it
\* has one.
normalizeActors_keepRoles(actorsIn, actorCount) ==
  LET N == NormalizedLength(actorsIn, actorCount)
  IN [threw  |-> \E i \in 1..N : actorsIn[i].isNull,
      actors |-> [i \in 1..N |->
                    IF actorsIn[i].isNull THEN NullActor
                    ELSE NormalizedActor(actorsIn[i],
                           IF Has(actorsIn[i], "type") THEN actorsIn[i].type
                           ELSE RoleAt(i))],
      N      |-> N]

\* A list that is no array is read as [] (a document without an actors
\* property has the empty list here).  Reading a property of a null entry
\* throws.
normalizeActors(actorsIn, actorCount) ==
  LET N == NormalizedLength(actorsIn, actorCount)
  IN [threw  |-> \E i \in 1..N : actorsIn[i].isNull,
      actors |-> [i \in 1..N |->
                    IF actorsIn[i].isNull THEN NullActor
                    ELSE NormalizedActor(actorsIn[i], RoleAt(i))],
      N      |-> N]

\* The longest input list.
MaxNormLen == 3

\* The number of passes over one list.
MaxPasses == 2

\* A document that holds nothing but the actor list.
ActorsOnly(actors) == Blueprint(<<"actors">>, <<>>, <<>>, actors, <<>>)

\* The input is a list of at most MaxNormLen such actors, with the ids A1,
\* A2, ... by position.
NormInit ==
  LET
    \* Actor objects: complete ones of every role, one whose lists are empty,
    \* and ones that lack the value proposition and the lists (and the type as
    \* well).
    NormActorShapes ==
      {Actor(<<"A">>, r, T("n"), T("v"), <<CBItem("Social", T("c"))>>,
             <<CBItem("Financial", T("b"))>>, <<KPI(T("k"), 1)>>, <<Service(T("s"), <<>>)>>)
         : r \in {"Customer", "Orchestrator", "Other"}}
      \cup {Actor(<<"A">>, "Orchestrator", T("n"), <<>>, <<>>, <<>>, <<>>, <<>>),
            PartialActor(<<"id", "type", "name">>, <<"A">>, "Customer", T("n"), <<>>, <<>>, <<>>),
            PartialActor(<<"id", "name">>, <<"A">>, "", T("n"), <<>>, <<>>, <<>>)}
  IN
    /\ \E l \in UNION {[1..k -> NormActorShapes] : k \in 0..MaxNormLen} :
         heap = [r \in {"obj1"} |->
                   ActorsOnly([i \in DOMAIN l |-> [l[i] EXCEPT !.id = <<"A">> \o Digits(i)]])]
    /\ blueprint = "obj1"
    /\ draft = "obj1"
    /\ last = [op |-> "init", n |-> NoCount, N |-> 0, again |-> FALSE]
    /\ nEdits = 0

\* const { actors, N } = normalizeActors(list, n), on the list held last,
\* with no count or a count up to one more than the longest list.
Normalize ==
  /\ nEdits < MaxPasses
  /\ \E n \in {NoCount} \cup {Count(c) : c \in 0..(MaxNormLen + 1)} :
       LET r == normalizeActors(Draft.actors, n)
       IN /\ ~r.threw
          /\ heap' = [ref \in {"obj1", "obj2"} |->
                        IF ref = "obj1" THEN heap["obj1"] ELSE ActorsOnly(r.actors)]
          /\ last' = [op |-> "normalizeActors", n |-> n, N |-> r.N,
                      again |-> last.op = "normalizeActors" /\ last.n = n]
  /\ draft' = "obj2"
  /\ nEdits' = nEdits + 1
  /\ UNCHANGED blueprint

NormSpec == NormInit /\ [][Normalize]_vars

\* C12: whatever roles the input list has, the output of normalizeActors
\* has role Customer at position 0, Orchestrator at position 1 and Other at
\* every later position.
C12_RolesOverwrittenByPosition ==
  last.op = "normalizeActors"
    => \A i \in DOMAIN Draft.actors :
         /\ Has(Draft.actors[i], "type")
         /\ Draft.actors[i].type =
              (IF i = 1 THEN "Customer" ELSE IF i = 2 THEN "Orchestrator" ELSE "Other")

\* A first pass over three actors whose input roles were Other, Customer
\* and Orchestrator.
C12_Witness ==
  /\ last.op = "normalizeActors" /\ nEdits = 1
  /\ Len(Draft.actors) = 3
  /\ Committed.actors[1].type = "Other"
  /\ Committed.actors[2].type = "Customer"
  /\ Committed.actors[3].type = "Orchestrator"

\* C13: normalizing the output of a pass again with the same desired count
\* yields the same actor list and the same count N.
C13_NormalizeIdempotent ==
  [][ last.op = "normalizeActors" /\ last'.op = "normalizeActors" /\ last'.n = last.n
        => /\ Draft'.actors = Draft.actors
           /\ last'.N = last.N ]_vars

\* A second pass with the same count over a list of two or more actors
\* whose first input actor had no cost list.
C13_Witness ==
  /\ last.op = "normalizeActors" /\ last.again
  /\ Len(Draft.actors) >= 2
  /\ ~Has(Committed.actors[1], "costs")

-----------------------------------------------------------------------------
(***************************************************************************)
(* A specification that calls the actor mutators addActor and removeActor  *)
(* on a document, in any order.  "blueprint" keeps the document the calls  *)
(* started from, "draft" is the document the calls mutate.  The documents  *)
(* are ones a draft can hold after an import: actor ids that repeat, that  *)
(* have another form than A<digits>, participant lists that name an actor  *)
(* the document does not have.                                             *)
(***************************************************************************)
\* The number of mutator calls on one document.
MaxCalls == 3

ActorId(n) == <<"A">> \o Digits(n)

ActorInit ==
  LET
    ActorIdLists ==
      { <<ActorId(7)>>,
        <<ActorId(1), ActorId(2)>>,
        <<ActorId(1), ActorId(2), ActorId(3)>>,
        <<ActorId(1), ActorId(2), ActorId(3), ActorId(3)>>,
        <<ActorId(1), ActorId(2), ActorId(1)>>,
        <<<<"X">>, <<"A">>>>,
        <<<<"A", "0", "7">>, ActorId(2), <<"B", "9">>, ActorId(12)>>,
        [i \in 1..8 |-> ActorId(i)],
        [i \in 1..MaxActors |-> ActorId(i)] }
    \* A document with the given actor ids, roles by position, and either no
    \* processes property or three processes; the third names A4 and A1.
    ActorDoc(ids, withProcesses) ==
      Blueprint(
        IF withProcesses THEN BlueprintKeys ELSE <<"meta", "networkValueProposition", "actors">>,
        T("n"), T("v"),
        [i \in DOMAIN ids |->
           Actor(ids[i], RoleAt(i), <<"n">> \o Digits(i), T("v"),
                 <<CBItem("Financial", T("c"))>>, <<CBItem("Social", T("b"))>>, <<>>, <<>>)],
        IF withProcesses
          THEN << Process(ProcessId(1), T("p"), ids),
                  Process(ProcessId(2), T("q"), <<ids[Len(ids)]>>),
                  Process(ProcessId(3), T("r"), <<ActorId(4), ActorId(1)>>) >>
          ELSE <<>>)
  IN
    /\ \E ids \in ActorIdLists, withProcesses \in BOOLEAN :
         heap = [ref \in {"obj1", "obj2"} |-> ActorDoc(ids, withProcesses)]
    /\ blueprint = "obj1"
    /\ draft = "obj2"
    /\ last = [op |-> "init", actorId |-> <<>>, before |-> 0, adds |-> 0]
    /\ nEdits = 0

\* addActor(next)
CallAddActor ==
  /\ nEdits < MaxCalls
  /\ heap' = [heap EXCEPT ![draft] = addActor(Draft)]
  /\ last' = [op |-> "addActor", actorId |-> <<>>, before |-> Len(Draft.actors),
              adds |-> last.adds + 1]
  /\ nEdits' = nEdits + 1
  /\ UNCHANGED <<blueprint, draft>>

\* removeActor(next, actorId), with the id of an actor of the document or
\* an id no actor has.
CallRemoveActor ==
  /\ nEdits < MaxCalls
  /\ \E actorId \in {Draft.actors[i].id : i \in DOMAIN Draft.actors} \cup {<<"Z", "9">>} :
       /\ heap' = [heap EXCEPT ![draft] = removeActor(Draft, actorId)]
       /\ last' = [op |-> "removeActor", actorId |-> actorId,
                   before |-> Len(Draft.actors), adds |-> last.adds]
  /\ nEdits' = nEdits + 1
  /\ UNCHANGED <<blueprint, draft>>

ActorSpec == ActorInit /\ [][CallAddActor \/ CallRemoveActor]_vars

\* C14: under addActor and removeActor calls on a document that has
\* between 2 and 10 actors the number of actors stays between 2 and 10;
\* addActor leaves a document with 10 actors unchanged, removeActor one
\* with 2 or fewer.
C14_ActorCountBounded ==
  [][ /\ Len(Committed.actors) \in 2..10 => Len(Draft'.actors) \in 2..10
      /\ last'.op = "addActor" /\ Len(Draft.actors) = 10 => Draft' = Draft
      /\ last'.op = "removeActor" /\ Len(Draft.actors) <= 2 => Draft' = Draft ]_vars

\* addActor was called on a document that two earlier calls had brought
\* from 8 to 10 actors.
C14_Witness ==
  /\ last.op = "addActor" /\ last.before = 10
  /\ Len(Committed.actors) = 8
  /\ Len(Draft.actors) = 10

\* The id and the position (from 1, 0 for none) that the removeActor call
\* of this step looks up in the document before the call.
RemovedId == last'.actorId

RemovedAt == FindActor(Draft, RemovedId)

\* C15: removeActor(X) for an actor X not at position 0 or 1, with more
\* than 2 actors, removes exactly the actor X from the actor list, removes
\* X's id from every participant list and changes nothing else.
C15_RemoveCascadesExactly ==
  [][ last'.op = "removeActor" /\ Len(Draft.actors) > 2 /\ RemovedAt > 2
        => /\ Draft'.actors = RemoveAt(Draft.actors, RemovedAt)
           /\ DOMAIN Draft'.processes = DOMAIN Draft.processes
           /\ \A k \in DOMAIN Draft.processes :
                /\ Draft'.processes[k].id = Draft.processes[k].id
                /\ Draft'.processes[k].name = Draft.processes[k].name
                /\ Draft'.processes[k].participantActorIds =
                     SelectSeq(Draft.processes[k].participantActorIds,
                               LAMBDA id : id # RemovedId)
           /\ Draft'.keys = Draft.keys
           /\ Draft'.metaName = Draft.metaName
           /\ Draft'.nvp = Draft.nvp ]_vars

\* C16: removeActor leaves the whole document unchanged when the id is not
\* found, when it is the id of the actor at position 0 or 1, or when there
\* are 2 or fewer actors; the actors at positions 0 and 1 are the same
\* before and after any sequence of removeActor and addActor calls.
C16_ProtectedActorsStay ==
  [][ /\ last'.op = "removeActor" /\ (RemovedAt \in {0, 1, 2} \/ Len(Draft.actors) <= 2)
           => Draft' = Draft
      /\ \A i \in {1, 2} \cap DOMAIN Committed.actors :
           /\ i \in DOMAIN Draft'.actors
           /\ Draft'.actors[i] = Committed.actors[i] ]_vars

\* removeActor was called with the id of the first actor on a document of
\* three actors whose third actor has the same id.
C16_Witness ==
  /\ last.op = "removeActor" /\ last.before = 3
  /\ Len(Draft.actors) = 3
  /\ last.actorId = Draft.actors[1].id
  /\ last.actorId = Draft.actors[3].id

\* The actor that the addActor call of this step has appended.
AddedActor == Draft'.actors[Len(Draft'.actors)]

\* The numbers n of the ids of the form A<digits> in the document before
\* the call.
NumericSuffixes ==
  {NumberOf(Tail(Draft.actors[i].id)) :
     i \in {j \in DOMAIN Draft.actors : MatchesActorId(Draft.actors[j])}}

\* C17: addActor on a document with fewer than 10 actors appends exactly
\* one actor, with role Other and id A{n}, n being 1 + the largest numeric
\* suffix among the ids of the form A<digits> (1 if there is none), and
\* leaves the existing actors unchanged; from two actors A1 (Customer) and
\* A2 (Orchestrator), three calls give ids A1..A5 with roles Customer,
\* Orchestrator, Other, Other, Other.
C17_AddActorAppendsNextId ==
  [][ last'.op = "addActor"
        => /\ Len(Draft.actors) < 10
             => /\ Len(Draft'.actors) = Len(Draft.actors) + 1
                /\ SubSeq(Draft'.actors, 1, Len(Draft.actors)) = Draft.actors
                /\ AddedActor.type = "Other"
                /\ \E n \in 1..100 :
                     /\ AddedActor.id = <<"A">> \o Digits(n)
                     /\ \A m \in NumericSuffixes : m < n
                     /\ n = 1 \/ (n - 1) \in NumericSuffixes
           /\ ( /\ [i \in DOMAIN Committed.actors |-> Committed.actors[i].id]
                     = <<ActorId(1), ActorId(2)>>
                /\ last'.adds = 3 /\ nEdits' = 3 )
             => /\ [i \in DOMAIN Draft'.actors |-> Draft'.actors[i].id]
                     = [i \in 1..5 |-> ActorId(i)]
                /\ [i \in DOMAIN Draft'.actors |-> Draft'.actors[i].type]
                     = <<"Customer", "Orchestrator", "Other", "Other", "Other">> ]_vars

\* Three addActor calls have run on the document of the two actors A1, A2.
C17_Witness ==
  /\ last.op = "addActor" /\ last.adds = 3 /\ nEdits = 3
  /\ Len(Committed.actors) = 2
  /\ Committed.actors[1].id = ActorId(1)
  /\ Len(Draft.actors) = 5

\* C18 as stated: after a successful addActor the new actor's id is
\* appended after the participants every existing process had and occurs
\* exactly once in the list.
C18_NewActorAppendedOnce ==
  [][ last'.op = "addActor" /\ Len(Draft.actors) < 10
        => /\ DOMAIN Draft'.processes = DOMAIN Draft.processes
           /\ \A k \in DOMAIN Draft.processes :
                /\ Draft'.processes[k].participantActorIds =
                     Append(Draft.processes[k].participantActorIds, AddedActor.id)
                /\ Cardinality({j \in DOMAIN Draft'.processes[k].participantActorIds :
                                  Draft'.processes[k].participantActorIds[j] = AddedActor.id})
                     = 1 ]_vars

\* C18, amended: after a successful addActor every existing process has the
\* new actor's id among its participants: appended at the end when the
\* list did not have the id, the list unchanged when it had; no process
\* loses or reorders a participant, and id and name of a process stay.
C18_NewActorJoinsEveryProcess ==
  [][ last'.op = "addActor" /\ Len(Draft.actors) < 10
        => /\ DOMAIN Draft'.processes = DOMAIN Draft.processes
           /\ \A k \in DOMAIN Draft.processes :
                /\ Draft'.processes[k].id = Draft.processes[k].id
                /\ Draft'.processes[k].name = Draft.processes[k].name
                /\ Draft'.processes[k].participantActorIds =
                     IF AddedActor.id \in Range(Draft.processes[k].participantActorIds)
                       THEN Draft.processes[k].participantActorIds
                       ELSE Append(Draft.processes[k].participantActorIds, AddedActor.id) ]_vars

\* addActor has added the actor A4 to a document whose third process named
\* A4 before, and whose first process did not.
C18_Witness ==
  /\ last.op = "addActor" /\ nEdits = 1 /\ last.before = 3
  /\ Len(Draft.processes) = 3
  /\ Draft.actors[4].id = ActorId(4)
  /\ Draft.processes[3].participantActorIds = Committed.processes[3].participantActorIds
  /\ Draft.processes[1].participantActorIds
       = Append(Committed.processes[1].participantActorIds, ActorId(4))

-----------------------------------------------------------------------------
(***************************************************************************)
(* A specification that writes cost and benefit slots with setNthValueItem *)
(* and reads them as the grid does.  "blueprint" is the document before    *)
(* the last write, "draft" the document after it.                          *)
(***************************************************************************)
\* The grid's reader of a slot; idxs[slotIndex] is undefined beyond the
\* items of the type.
getNthValueItemDescription(a, kind, type, slotIndex) ==
  LET arr  == ValueItems(a, kind)
      idxs == indicesOfType(arr, type)
  IN IF slotIndex < Len(idxs) THEN arr[idxs[slotIndex + 1]].description ELSE <<>>

\* The longest cost list of an input document.
MaxItems == 2

\* The number of writes on one document.
MaxWrites == 1

\* A document of two actors; the first has the given cost list and one
\* benefit, or, when bare is chosen, no benefits property (and no costs
\* property when the cost list is empty).
ValueDoc(costs, bare) ==
  Blueprint(BlueprintKeys, T("n"), T("v"),
    << IF bare
         THEN PartialActor(IF costs = <<>> THEN <<"id", "type", "name">>
                           ELSE <<"id", "type", "name", "costs">>,
                           ActorId(1), "Customer", T("n"), <<>>, costs, <<>>)
         ELSE Actor(ActorId(1), "Customer", T("n"), T("v"), costs,
                    <<CBItem("Social", T("b"))>>, <<>>, <<>>),
       Actor(ActorId(2), "Orchestrator", T("m"), T("w"), <<CBItem("Financial", T("c"))>>,
             <<CBItem("Financial", T("d"))>>, <<>>, <<>>) >>,
    <<>>)

\* The cost lists have items of two categories, one of them blank.
ValueInit ==
  /\ \E costs \in UNION {[1..k -> {CBItem("Financial", T("a")), CBItem("Social", T("b")),
                                   CBItem("Financial", <<>>)}] : k \in 0..MaxItems},
        bare \in BOOLEAN :
       heap = [ref \in {"obj1", "obj2"} |-> ValueDoc(costs, bare)]
  /\ blueprint = "obj1"
  /\ draft = "obj2"
  /\ last = [op |-> "init", kind |-> "costs", type |-> "Financial", slot |-> 0, text |-> <<>>]
  /\ nEdits = 0

\* setNthValueItem(next, "A1", kind, type, slotIndex, description), with
\* text as typed: empty, blank, plain, and with spaces around.
WriteValueSlot ==
  /\ nEdits < MaxWrites
  /\ \E kind \in {"costs", "benefits"}, type \in {"Financial", "Social"},
        slotIndex \in 0..(MaxItems + 1),
        text \in {<<>>, <<" ">>, T("x"), <<" ", "x", " ">>} :
       /\ heap' = [ref \in {"obj1", "obj2"} |->
                     IF ref = "obj1" THEN Draft
                     ELSE setNthValueItem(Draft, ActorId(1), kind, type, slotIndex, text)]
       /\ last' = [op |-> "setNthValueItem", kind |-> kind, type |-> type,
                   slot |-> slotIndex, text |-> text]
  /\ nEdits' = nEdits + 1
  /\ UNCHANGED <<blueprint, draft>>

ValueSpec == ValueInit /\ [][WriteValueSlot]_vars

\* The list the last write addressed, before and after the write, and the
\* number of its items of the written category before the write.
ListBefore == ValueItems(Committed.actors[1], last.kind)

ListAfter == ValueItems(Draft.actors[1], last.kind)

CountBefore == countOfType(ListBefore, last.type)

\* What the grid reads in the slot that was written last.
ReadBack == getNthValueItemDescription(Draft.actors[1], last.kind, last.type, last.slot)

\* C19 as stated: after non-empty text T is written to slot i of category
\* C, 0 <= i <= k for the k items of that category, reading slot i of
\* category C returns T.
C19_SlotReadsBackText ==
  last.op = "setNthValueItem" /\ last.text # <<>> /\ last.slot <= CountBefore
    => ReadBack = last.text

\* C19, amended: after text T whose trimmed form is not empty is written to
\* slot i of category C, 0 <= i <= k, reading slot i of category C returns
\* the trimmed T (T itself when it has no space around it).
C19_SlotReadsBackTrimmedText ==
  last.op = "setNthValueItem" /\ Trim(last.text) # <<>> /\ last.slot <= CountBefore
    => ReadBack = Trim(last.text)

\* Text with spaces around it was written to the slot after the one item
\* of its category, and the slot reads the text without the spaces.
C19_Witness ==
  /\ last.op = "setNthValueItem" /\ last.text = <<" ", "x", " ">>
  /\ CountBefore = 1 /\ last.slot = 1
  /\ ReadBack = T("x")

\* C20 as stated: writing empty or whitespace-only text to a slot that
\* addresses an existing item of category C removes exactly one entry from
\* the list and decreases the number of items of category C by one.
C20_EmptyTextRemovesOne ==
  last.op = "setNthValueItem" /\ Trim(last.text) = <<>> /\ last.slot < CountBefore
    => /\ Len(ListAfter) = Len(ListBefore) - 1
       /\ countOfType(ListAfter, last.type) = CountBefore - 1

\* C20, amended: writing empty or whitespace-only text to a slot that
\* addresses an existing item of category C removes that item and no
\* other; when other items remain, the list is one entry shorter and has
\* one item of category C less; when it was the only item, the list is
\* afterwards one blank Financial item.
C20_EmptyTextRemovesOneThenPads ==
  last.op = "setNthValueItem" /\ Trim(last.text) = <<>> /\ last.slot < CountBefore
    => LET rest == RemoveAt(ListBefore, indicesOfType(ListBefore, last.type)[last.slot + 1])
       IN /\ ListAfter = IF rest = <<>> THEN <<CBItem("Financial", <<>>)>> ELSE rest
          /\ Len(ListBefore) > 1
               => /\ Len(ListAfter) = Len(ListBefore) - 1
                  /\ countOfType(ListAfter, last.type) = CountBefore - 1

\* Blank text was written to the slot of the only cost, a Financial one,
\* and the list holds one blank Financial item afterwards.
C20_Witness ==
  /\ last.op = "setNthValueItem" /\ last.kind = "costs" /\ last.text = <<" ">>
  /\ last.type = "Financial" /\ last.slot = 0
  /\ ListBefore = <<CBItem("Financial", T("a"))>>
  /\ ListAfter = <<CBItem("Financial", <<>>)>>

\* C21: writing text that is not blank to a slot index at or beyond the
\* number of items of the row's category appends exactly one item with the
\* row's category and the trimmed text at the end of the list and changes
\* no existing item; writing empty or whitespace-only text to such a slot
\* leaves the list (and the document) unchanged.
C21_SlotBeyondAppendsOne ==
  last.op = "setNthValueItem" /\ last.slot >= CountBefore
    => IF Trim(last.text) = <<>>
         THEN ListAfter = ListBefore /\ Draft = Committed
         ELSE ListAfter = Append(ListBefore, CBItem(last.type, Trim(last.text)))

\* Costs [{Financial, a}] and a write of x to Financial slot 1 have given
\* [{Financial, a}, {Financial, x}].
C21_Witness ==
  /\ last.op = "setNthValueItem" /\ last.kind = "costs" /\ last.type = "Financial"
  /\ last.slot = 1 /\ last.text = T("x")
  /\ ListBefore = <<CBItem("Financial", T("a"))>>
  /\ ListAfter = <<CBItem("Financial", T("a")), CBItem("Financial", T("x"))>>

\* The position in the list of the item that the last write addressed, and
\* the actor's other list before and after the write.
WrittenAt == indicesOfType(ListBefore, last.type)[last.slot + 1]

OtherKind == IF last.kind = "costs" THEN "benefits" ELSE "costs"

OtherListBefore == ValueItems(Committed.actors[1], OtherKind)

OtherListAfter == ValueItems(Draft.actors[1], OtherKind)

\* The last write was an overwrite: text that is not blank, to a slot that
\* addresses an item.
IsOverwrite ==
  last.op = "setNthValueItem" /\ Trim(last.text) # <<>> /\ last.slot < CountBefore

\* The frame of an overwrite inside the written list and outside the actor:
\* length, the written item's category and position, every other item, the
\* actor's other properties and every other actor are as before.
OverwriteFrame ==
  /\ Len(ListAfter) = Len(ListBefore)
  /\ ListAfter[WrittenAt].type = ListBefore[WrittenAt].type
  /\ \A j \in DOMAIN ListBefore : j # WrittenAt => ListAfter[j] = ListBefore[j]
  /\ \A f \in {"id", "type", "name", "vp", "kpis", "services"} :
       Draft.actors[1][f] = Committed.actors[1][f]
  /\ \A j \in DOMAIN Committed.actors : j # 1 => Draft.actors[j] = Committed.actors[j]
  /\ DOMAIN Draft.actors = DOMAIN Committed.actors
  /\ [Draft EXCEPT !.actors = <<>>] = [Committed EXCEPT !.actors = <<>>]

\* C22 as stated: overwriting an existing slot changes only the description
\* of the addressed item; the actor's other list is unchanged as well.
C22_OverwriteChangesOneDescription ==
  IsOverwrite => OverwriteFrame /\ OtherListAfter = OtherListBefore

\* C22, amended: overwriting an existing slot changes only the description
\* of the addressed item (to the trimmed text), except that an empty other
\* list of the actor becomes one blank Financial item.
C22_OverwriteChangesDescriptionAndPads ==
  IsOverwrite
    => /\ OverwriteFrame
       /\ ListAfter[WrittenAt].description = Trim(last.text)
       /\ OtherListAfter = IF OtherListBefore = <<>> THEN <<CBItem("Financial", <<>>)>>
                           ELSE OtherListBefore

\* The second of two Financial costs, behind a Social one, was overwritten
\* on an actor that had no benefits.
C22_Witness ==
  /\ IsOverwrite /\ last.kind = "costs" /\ last.type = "Financial" /\ last.slot = 0
  /\ WrittenAt = 2
  /\ OtherListBefore = <<>>
  /\ ListAfter[2].description = T("x")

-----------------------------------------------------------------------------
(***************************************************************************)
(* A specification that calls the KPI mutators on the first actor of a     *)
(* document, and every mutator that takes an actor id with an id that no   *)
(* actor has.  "blueprint" is the document before the last call, "draft"   *)
(* the document after it.  The ranks of the input KPIs are positive, as    *)
(* every rank the mutators assign, or missing.                             *)
(***************************************************************************)
\* The longest KPI list of an input document.
MaxKpis == 2

\* The number of calls on one document.
MaxKpiCalls == 2

\* The KPI lists have two KPIs of the same name, one of them without rank,
\* and a third KPI; a list may hold the same KPI twice.
KpiInit ==
  /\ \E kpis \in UNION {[1..k -> {KPI(T("k"), 1), KPI(T("j"), 2), KPI(T("k"), NoRank)}]
                          : k \in 0..MaxKpis},
        bare \in BOOLEAN :
       /\ bare => kpis = <<>>
       /\ heap = [ref \in {"obj1", "obj2"} |->
                    [ValueDoc(<<CBItem("Financial", T("a"))>>, bare)
                       EXCEPT !.actors[1].kpis = kpis]]
  /\ blueprint = "obj1"
  /\ draft = "obj2"
  /\ last = [op |-> "init", slot |-> 0, text |-> <<>>, unknown |-> FALSE]
  /\ nEdits = 0

\* setKpiSlotFlexible(next, "A1", slotIndex, name)
CallSetKpiSlot ==
  /\ nEdits < MaxKpiCalls
  /\ \E slotIndex \in 0..(MaxKpis + 1), text \in {<<>>, T("x"), <<" ", "x">>} :
       /\ heap' = [ref \in {"obj1", "obj2"} |->
                     IF ref = "obj1" THEN Draft
                     ELSE setKpiSlotFlexible(Draft, ActorId(1), slotIndex, text)]
       /\ last' = [op |-> "setKpiSlotFlexible", slot |-> slotIndex, text |-> text,
                   unknown |-> FALSE]
  /\ nEdits' = nEdits + 1
  /\ UNCHANGED <<blueprint, draft>>

\* addKpiSlot(next, "A1")
CallAddKpiSlot ==
  /\ nEdits < MaxKpiCalls
  /\ heap' = [ref \in {"obj1", "obj2"} |->
                IF ref = "obj1" THEN Draft ELSE addKpiSlot(Draft, ActorId(1))]
  /\ last' = [op |-> "addKpiSlot", slot |-> 0, text |-> <<>>, unknown |-> FALSE]
  /\ nEdits' = nEdits + 1
  /\ UNCHANGED <<blueprint, draft>>

\* A mutator that takes an actor id, called with the id Z9.
CallWithUnknownActor ==
  /\ nEdits < MaxKpiCalls
  /\ \E op \in {"setActorName", "setActorVP", "setNthValueItem", "addCostBenefitSlot",
                "setKpiSlotFlexible", "addKpiSlot", "setServiceSlot", "addServiceSlot",
                "removeActor"},
        slotIndex \in {0, 1}, text \in {<<>>, T("x")} :
       LET id == <<"Z", "9">>
       IN /\ heap' = [ref \in {"obj1", "obj2"} |->
                        IF ref = "obj1" THEN Draft
                        ELSE CASE op = "setActorName" -> setActorName(Draft, id, text)
                               [] op = "setActorVP" -> setActorVP(Draft, id, text)
                               [] op = "setNthValueItem" ->
                                    setNthValueItem(Draft, id, "costs", "Financial",
                                                    slotIndex, text)
                               [] op = "addCostBenefitSlot" ->
                                    addCostBenefitSlot(Draft, id, "costs", "Financial")
                               [] op = "setKpiSlotFlexible" ->
                                    setKpiSlotFlexible(Draft, id, slotIndex, text)
                               [] op = "addKpiSlot" -> addKpiSlot(Draft, id)
                               [] op = "setServiceSlot" ->
                                    setServiceSlot(Draft, id, slotIndex, text)
                               [] op = "addServiceSlot" -> addServiceSlot(Draft, id)
                               [] op = "removeActor" -> removeActor(Draft, id)]
          /\ last' = [op |-> op, slot |-> slotIndex, text |-> text, unknown |-> TRUE]
  /\ nEdits' = nEdits + 1
  /\ UNCHANGED <<blueprint, draft>>

KpiSpec == KpiInit /\ [][CallSetKpiSlot \/ CallAddKpiSlot \/ CallWithUnknownActor]_vars

\* The first actor's KPI list before and after the last call.
KpisBefore == Committed.actors[1].kpis

KpisAfter == Draft.actors[1].kpis

RanksOf(kpis) == [j \in DOMAIN kpis |-> kpis[j].rank]

\* r is one more than the largest rank of the list: 1 when no KPI of the
\* list has a rank.
IsNextRank(r, kpis) ==
  LET present == {kpis[j].rank : j \in DOMAIN kpis} \ {NoRank}
  IN /\ \A q \in present : q < r
     /\ IF present = {} THEN r = 1 ELSE (r - 1) \in present

\* C23: no setKpiSlotFlexible or addKpiSlot call changes the rank of a KPI
\* that exists: after a call the ranks are those before it, in their order,
\* with at most one removed or one appended; text that is not blank,
\* written to a slot beyond the existing KPIs, appends exactly one KPI,
\* whose rank is 1 + the largest rank of the list (1 for an empty list).
C23_KpiRanksKept ==
  last.op \in {"setKpiSlotFlexible", "addKpiSlot"} /\ ~last.unknown
    => /\ \/ RanksOf(KpisAfter) = RanksOf(KpisBefore)
          \/ \E j \in DOMAIN KpisBefore :
               RanksOf(KpisAfter) = RemoveAt(RanksOf(KpisBefore), j)
          \/ /\ Len(KpisAfter) = Len(KpisBefore) + 1
             /\ SubSeq(KpisAfter, 1, Len(KpisBefore)) = KpisBefore
             /\ IsNextRank(KpisAfter[Len(KpisAfter)].rank, KpisBefore)
       /\ ( /\ last.op = "setKpiSlotFlexible"
            /\ Trim(last.text) # <<>>
            /\ last.slot >= Len(KpisBefore) )
            => /\ Len(KpisAfter) = Len(KpisBefore) + 1
               /\ SubSeq(KpisAfter, 1, Len(KpisBefore)) = KpisBefore
               /\ KpisAfter[Len(KpisAfter)].name = Trim(last.text)
               /\ IsNextRank(KpisAfter[Len(KpisAfter)].rank, KpisBefore)

\* A second call has appended a KPI behind one with rank 2 and one that an
\* earlier call had appended with rank 3.
C23_Witness ==
  /\ last.op = "setKpiSlotFlexible" /\ nEdits = 2 /\ ~last.unknown
  /\ RanksOf(KpisBefore) = <<2, 3>>
  /\ RanksOf(KpisAfter) = <<2, 3, 4>>

\* C24: slot i is position i of the KPI list sorted by ascending rank
\* (missing rank last); after text T that is not blank is written to an
\* existing slot i, or to the first slot beyond the existing KPIs, reading
\* slot i returns T (without the white space around it).
C24_KpiSlotReadsBackText ==
  ( /\ last.op = "setKpiSlotFlexible" /\ ~last.unknown
    /\ Trim(last.text) # <<>>
    /\ last.slot <= Len(KpisBefore) )
    => getKpiSlotNameFlexible(Draft.actors[1], last.slot) = Trim(last.text)

-----------------------------------------------------------------------------
(***************************************************************************)
(* A specification that writes process cells with setProcessSlot.  The     *)
(* text of a cell is a name, or a name and a parenthesised list of tokens  *)
(* separated by commas; "last" keeps the name and the tokens the text was  *)
(* written from.  "blueprint" is the document before the last write,       *)
(* "draft" the document after it.                                          *)
(***************************************************************************)
\* The largest number of tokens in a cell.
MaxTokens == 2

\* The number of writes on one document.
MaxProcessCalls == 1

\* The text "name (t1, t2, ...)"; without a group, the name alone.
RECURSIVE JoinTokens(_)
JoinTokens(tokens) ==
  IF tokens = <<>> THEN <<>>
  ELSE IF Len(tokens) = 1 THEN Head(tokens)
  ELSE Head(tokens) \o <<",", " ">> \o JoinTokens(Tail(tokens))

\* The actors are Alice (A1) and Bob (A2); a third actor, when there is
\* one, has the name "A1".  There is one process.
ProcessInit ==
  /\ \E third \in BOOLEAN :
       heap = [ref \in {"obj1", "obj2"} |->
                 Blueprint(BlueprintKeys, T("n"), T("v"),
                   [i \in 1..(IF third THEN 3 ELSE 2) |->
                      Actor(ActorId(i), RoleAt(i),
                            IF i = 1 THEN T("Alice") ELSE IF i = 2 THEN T("Bob")
                            ELSE ActorId(1),
                            T("v"), <<CBItem("Financial", T("c"))>>,
                            <<CBItem("Social", T("b"))>>, <<>>, <<>>)],
                   <<Process(ProcessId(1), T("p"), <<ActorId(2)>>)>>)]
  /\ blueprint = "obj1"
  /\ draft = "obj2"
  /\ last = [op |-> "init", slot |-> 0, name |-> <<>>, group |-> FALSE, tokens |-> <<>>]
  /\ nEdits = 0

\* setProcessSlot(next, slotIndex, line), the line written from a name (or
\* none) and, with a group, tokens: names and ids of actors in other case,
\* and a token that names no actor.
CallSetProcessSlot ==
  /\ nEdits < MaxProcessCalls
  /\ \E slotIndex \in 0..1, name \in {<<>>, T("Onboarding")}, group \in BOOLEAN,
        tokens \in UNION {[1..k -> {T("Alice"), T("ALICE"), T("Bob"), <<"a", "1">>, T("zz")}]
                            : k \in 0..MaxTokens} :
       /\ ~group => tokens = <<>>
       /\ heap' = [ref \in {"obj1", "obj2"} |->
                     IF ref = "obj1" THEN Draft
                     ELSE setProcessSlot(Draft, slotIndex,
                            IF group THEN name \o <<" ", "(">> \o JoinTokens(tokens) \o <<")">>
                            ELSE name)]
       /\ last' = [op |-> "setProcessSlot", slot |-> slotIndex, name |-> name,
                   group |-> group, tokens |-> tokens]
  /\ nEdits' = nEdits + 1
  /\ UNCHANGED <<blueprint, draft>>

ProcessSpec == ProcessInit /\ [][CallSetProcessSlot]_vars

\* The process that the last write has stored: the one at the slot, or the
\* one appended.
StoredProcess ==
  Draft.processes[IF last.slot < Len(Committed.processes) THEN last.slot + 1
                  ELSE Len(Draft.processes)]

\* The id or the display name of the actor equals the token, case ignored.
TokenNames(t, a) == Lower(t) = Lower(Trim(a.id)) \/ Lower(t) = Lower(Trim(a.name))

\* C25: for text Name (t1, ..., tn) setProcessSlot stores the name and a
\* participant list in which every token that names an actor (by id or
\* display name, case ignored) is resolved to the id of such an actor, a
\* token that names no actor contributes nothing, and no id occurs twice;
\* text without a group gives an empty list.  With actors Alice (A1) and
\* Bob (A2), Onboarding (Alice, Bob) gives Onboarding and [A1, A2].
C25_ProcessCellParsed ==
  last.op = "setProcessSlot" /\ (last.name # <<>> \/ last.group)
    => LET ids    == StoredProcess.participantActorIds
           actors == Committed.actors
       IN /\ StoredProcess.name = last.name
          /\ \A j \in DOMAIN ids :
               \E k \in DOMAIN last.tokens, i \in DOMAIN actors :
                 actors[i].id = ids[j] /\ TokenNames(last.tokens[k], actors[i])
          /\ \A k \in DOMAIN last.tokens :
               (\E i \in DOMAIN actors : TokenNames(last.tokens[k], actors[i]))
                 => \E i \in DOMAIN actors :
                      /\ TokenNames(last.tokens[k], actors[i])
                      /\ actors[i].id \in Range(ids)
          /\ \A j, k \in DOMAIN ids : ids[j] = ids[k] => j = k
          /\ ~last.group => ids = <<>>
          /\ ( /\ Len(actors) = 2 /\ last.name = T("Onboarding")
               /\ last.tokens = <<T("Alice"), T("Bob")>> )
               => ids = <<ActorId(1), ActorId(2)>>

\* Onboarding (Alice, Bob) was written to the slot behind the one process
\* of the document with actors Alice (A1) and Bob (A2).
C25_Witness ==
  /\ last.op = "setProcessSlot" /\ last.slot = 1
  /\ last.tokens = <<T("Alice"), T("Bob")>>
  /\ Len(Draft.actors) = 2 /\ Len(Draft.processes) = 2
  /\ Draft.processes[2].name = T("Onboarding")
  /\ Draft.processes[2].participantActorIds = <<ActorId(1), ActorId(2)>>

-----------------------------------------------------------------------------
(***************************************************************************)
(* The validator and the roles and ids of the actors.                      *)
(***************************************************************************)
\* C26: whenever the draft has at least two actors and the number of its
\* Customer actors, or of its Orchestrator actors, is not exactly one, the
\* validator reports an error for it, so that Save is blocked.
C26_RoleCountsAreErrors ==
  /\ Len(Draft.actors) >= 2
  /\ RoleCount(Draft, "Customer") # 1 \/ RoleCount(Draft, "Orchestrator") # 1
  => hasBlocking

\* Two actors of bp carry the same id.
HasDuplicateIds(bp) ==
  \E i, j \in DOMAIN bp.actors :
    /\ i < j
    /\ ~bp.actors[i].isNull /\ ~bp.actors[j].isNull
    /\ Has(bp.actors[i], "id") /\ Has(bp.actors[j], "id")
    /\ bp.actors[i].id = bp.actors[j].id

\* C27: a draft in which two actors share an id has an error-level issue;
\* a save on such a draft changes neither committed nor draft; and the
\* committed document never holds two actors with the same id.
C27_DuplicateIdsBlockSave ==
  /\ [](HasDuplicateIds(Draft) => hasBlocking)
  /\ [](~HasDuplicateIds(Committed))
  /\ [][ last'.op = "saveDraft" /\ HasDuplicateIds(Draft)
           => UNCHANGED <<heap, blueprint, draft>> /\ last'.outcome = "blocked" ]_vars

\* Save was pressed on the draft of duplicate-id.json, in which both actors
\* have the id A1, and was blocked.
C27_Witness ==
  /\ last.op = "saveDraft"
  /\ last.outcome = "blocked"
  /\ HasDuplicateIds(Draft)
  /\ Len(Draft.actors) >= 2

-----------------------------------------------------------------------------
(***************************************************************************)
(* The slots of the grid.  The grid shows every list as a fixed number of  *)
(* slots, the same for all columns; a cell commits to its slot index.      *)
(* "obj1" holds the document before the last commit, "obj2" the document   *)
(* after it.                                                               *)
(***************************************************************************)
DEFAULT_PER_VALUE_TYPE_SLOTS == 2

DEFAULT_KPI_SLOTS == 3

DEFAULT_SERVICE_SLOTS == 3

DEFAULT_PROCESS_SLOTS == 3

\* const { actors, N } = useMemo(() => normalizeActors(blueprint.actors), ...)
GridActors(bp) == normalizeActors(bp.actors, NoCount).actors

\* costSlotsByType.get(key); editable tells whether the grid was given an
\* onChange handler.
costSlotsByType(bp, editable, key) ==
  LET actors   == GridActors(bp)
      extra    == IF editable THEN 1 ELSE 0
      maxCount == Max({0} \cup {countOfType(actors[i].costs, key) : i \in DOMAIN actors})
  IN Max({DEFAULT_PER_VALUE_TYPE_SLOTS, maxCount + extra})

benefitSlotsByType(bp, editable, key) ==
  LET actors   == GridActors(bp)
      extra    == IF editable THEN 1 ELSE 0
      maxCount == Max({0} \cup {countOfType(actors[i].benefits, key) : i \in DOMAIN actors})
  IN Max({DEFAULT_PER_VALUE_TYPE_SLOTS, maxCount + extra})

\* Variant of kpiSlots that shows no additional slot.
kpiSlots_noExtra(bp, editable) ==
  LET actors == GridActors(bp)
      maxLen == Max({0} \cup {Len(actors[i].kpis) : i \in DOMAIN actors})
  IN Max({DEFAULT_KPI_SLOTS, maxLen})

kpiSlots(bp, editable) ==
  LET actors == GridActors(bp)
      maxLen == Max({0} \cup {Len(actors[i].kpis) : i \in DOMAIN actors})
      base   == Max({DEFAULT_KPI_SLOTS, maxLen})
  IN IF editable THEN Max({DEFAULT_KPI_SLOTS, maxLen + 1}) ELSE base

serviceSlots(bp, editable) ==
  LET actors == GridActors(bp)
      maxLen == Max({0} \cup {Len(actors[i].services) : i \in DOMAIN actors})
      base   == Max({DEFAULT_SERVICE_SLOTS, maxLen})
  IN IF editable THEN Max({DEFAULT_SERVICE_SLOTS, maxLen + 1}) ELSE base

processSlots(bp, editable) ==
  LET maxLen == Max({0, Len(bp.processes)})
      base   == Max({DEFAULT_PROCESS_SLOTS, maxLen})
  IN IF editable THEN Max({DEFAULT_PROCESS_SLOTS, maxLen + 1}) ELSE base

\* The longest list of a document of SlotInit.
MaxSlotItems == 3

\* The number of commits on one document.
MaxSlotCommits == 1

\* The fields of the grid that hold a list, and the category of the rows
\* of costs and of benefits that the commits go to.
\* The number of slots the grid shows for a field.
SlotsOf(bp, editable, field) ==
  CASE field = "costs" -> costSlotsByType(bp, editable, "Financial")
    [] field = "benefits" -> benefitSlotsByType(bp, editable, "Social")
    [] field = "kpis" -> kpiSlots(bp, editable)
    [] field = "services" -> serviceSlots(bp, editable)
    [] field = "processes" -> processSlots(bp, editable)

\* The number of items the field holds for the actor in column col (the
\* process list belongs to no column).
ItemCount(bp, field, col) ==
  CASE field = "costs" -> countOfType(bp.actors[col].costs, "Financial")
    [] field = "benefits" -> countOfType(bp.actors[col].benefits, "Social")
    [] field = "kpis" -> Len(bp.actors[col].kpis)
    [] field = "services" -> Len(bp.actors[col].services)
    [] field = "processes" -> Len(bp.processes)

\* Two actors; every list of the first has n items and every list of the
\* second, and the process list, has m.
SlotInit ==
  /\ \E n, m \in 0..MaxSlotItems :
       LET lists(k) ==
             [costs    |-> [i \in 1..k |-> CBItem("Financial", T("c"))],
              benefits |-> [i \in 1..k |-> CBItem("Social", T("b"))],
              kpis     |-> [i \in 1..k |-> KPI(T("k"), i)],
              services |-> [i \in 1..k |-> Service(T("s"), <<>>)]]
           actor(i, k) ==
             Actor(ActorId(i), RoleAt(i), T("n"), T("v"), lists(k).costs,
                   lists(k).benefits, lists(k).kpis, lists(k).services)
       IN heap = [ref \in {"obj1", "obj2"} |->
                    Blueprint(BlueprintKeys, T("n"), T("v"), <<actor(1, n), actor(2, m)>>,
                      [i \in 1..m |-> Process(ProcessId(i), T("p"), <<>>)])]
  /\ blueprint = "obj1"
  /\ draft = "obj2"
  /\ last = [op |-> "init", field |-> "", col |-> 0, slot |-> 0, text |-> <<>>]
  /\ nEdits = 0

\* The user commits a text in the last slot that the editable grid shows
\* for a field in a column.
OnCommitLastSlot ==
  /\ nEdits < MaxSlotCommits
  /\ \E field \in {"costs", "benefits", "kpis", "services", "processes"},
        col \in 1..2, text \in {<<>>, T("x")} :
       LET i  == SlotsOf(Draft, TRUE, field) - 1
           id == GridActors(Draft)[col].id
       IN /\ field = "processes" => col = 1
          /\ heap' = [ref \in {"obj1", "obj2"} |->
                        IF ref = "obj1" THEN Draft
                        ELSE CASE field = "costs" ->
                                    setNthValueItem(Draft, id, "costs", "Financial", i, text)
                               [] field = "benefits" ->
                                    setNthValueItem(Draft, id, "benefits", "Social", i, text)
                               [] field = "kpis" -> setKpiSlotFlexible(Draft, id, i, text)
                               [] field = "services" -> setServiceSlot(Draft, id, i, text)
                               [] field = "processes" -> setProcessSlot(Draft, i, text)]
          /\ last' = [op |-> "commitLastSlot", field |-> field, col |-> col, slot |-> i,
                      text |-> text]
  /\ nEdits' = nEdits + 1
  /\ UNCHANGED <<blueprint, draft>>

SlotSpec == SlotInit /\ [][OnCommitLastSlot]_vars

\* C28: for every list field and every column, the number of slots shown
\* is at least the field's default and, in the editable grid, greater than
\* the number of items the field holds, so that the last slot addresses
\* no entry: a text committed there adds one entry to the field.
C28_SlotsExceedItems ==
  /\ \A editable \in BOOLEAN, col \in DOMAIN Draft.actors :
       /\ \A key \in CostBenefitTypes :
            /\ costSlotsByType(Draft, editable, key) >= DEFAULT_PER_VALUE_TYPE_SLOTS
            /\ benefitSlotsByType(Draft, editable, key) >= DEFAULT_PER_VALUE_TYPE_SLOTS
            /\ editable =>
                 /\ costSlotsByType(Draft, editable, key)
                      > countOfType(Draft.actors[col].costs, key)
                 /\ benefitSlotsByType(Draft, editable, key)
                      > countOfType(Draft.actors[col].benefits, key)
       /\ kpiSlots(Draft, editable) >= DEFAULT_KPI_SLOTS
       /\ serviceSlots(Draft, editable) >= DEFAULT_SERVICE_SLOTS
       /\ processSlots(Draft, editable) >= DEFAULT_PROCESS_SLOTS
       /\ editable => \A field \in {"costs", "benefits", "kpis", "services", "processes"} :
                        SlotsOf(Draft, editable, field) > ItemCount(Draft, field, col)
  /\ last.op = "commitLastSlot" =>
       /\ last.slot >= ItemCount(Committed, last.field, last.col)
       /\ last.text # <<>> =>
            ItemCount(Draft, last.field, last.col)
              = ItemCount(Committed, last.field, last.col) + 1

\* A text was committed in the last slot of a field that held more items
\* than its default number of slots, and the field gained an entry.
C28_Witness ==
  /\ last.op = "commitLastSlot"
  /\ last.text # <<>>
  /\ last.field = "kpis"
  /\ ItemCount(Committed, "kpis", last.col) >= DEFAULT_KPI_SLOTS
  /\ last.slot = ItemCount(Committed, "kpis", last.col)
  /\ ItemCount(Draft, "kpis", last.col) = last.slot + 1

-----------------------------------------------------------------------------
(***************************************************************************)
(* The cells of one SlotStack: the Financial costs of the first actor.     *)
(* Every slot is an EditableText with a state of its own, kept in the heap *)
(* at "cells": editing, draft (the text of the input), and the number of   *)
(* the document version that was shown when the cell was opened.  nEdits   *)
(* numbers the versions; "obj2" is the document the grid shows.            *)
(***************************************************************************)
\* The most items the list has at the start.
MaxCellItems == 2

\* The number of commits on one document.
MaxCellCommits == 2

\* getValue(i) of the SlotStack, for the cell at position j = i + 1.
CellValue(bp, j) ==
  getNthValueItemDescription(GridActors(bp)[1], "costs", "Financial", j - 1)

\* A render of the SlotStack and the effect of every EditableText after
\* it: one cell for each slot, keyed by its index; a cell that is not
\* being edited takes the value of its slot as draft, a new cell starts so.
RenderCells(bp, old) ==
  [j \in 1..costSlotsByType(bp, TRUE, "Financial") |->
     IF j \in DOMAIN old /\ old[j].editing THEN old[j]
     ELSE [editing |-> FALSE, draft |-> CellValue(bp, j), version |-> 0]]

CellInit ==
  /\ \E k \in 1..MaxCellItems :
       LET doc == ValueDoc([i \in 1..k |-> CBItem("Financial", <<"c">> \o Digits(i))], FALSE)
       IN heap = [ref \in {"obj1", "obj2", "cells"} |->
                    IF ref = "cells" THEN RenderCells(doc, <<>>) ELSE doc]
  /\ blueprint = "obj1"
  /\ draft = "obj2"
  /\ last = [op |-> "init", cell |-> 0, version |-> 0, applied |-> 0]
  /\ nEdits = 0

\* onClick={() => setEditing(true)} of a cell that shows its value.
OnClickCell ==
  /\ \E j \in DOMAIN heap["cells"] :
       /\ ~heap["cells"][j].editing
       /\ heap' = [heap EXCEPT !["cells"][j] =
                     [editing |-> TRUE, draft |-> @.draft, version |-> nEdits]]
       /\ last' = [op |-> "open", cell |-> j, version |-> nEdits, applied |-> nEdits]
  /\ UNCHANGED <<blueprint, draft, nEdits>>

\* onChange={(e) => setDraft(e.target.value)} of the input of an open cell.
OnChangeCell ==
  /\ \E j \in DOMAIN heap["cells"], text \in {<<>>, T("x")} :
       /\ heap["cells"][j].editing
       /\ heap' = [heap EXCEPT !["cells"][j].draft = text]
       /\ last' = [op |-> "type", cell |-> j, version |-> heap["cells"][j].version,
                   applied |-> nEdits]
  /\ UNCHANGED <<blueprint, draft, nEdits>>

\* Save of an open cell: onCommit(draft), that is updateBlueprint with
\* setNthValueItem on a clone of the document shown now, then
\* setEditing(false).
OnClickCellSave ==
  /\ nEdits < MaxCellCommits
  /\ \E j \in DOMAIN heap["cells"] :
       LET cell   == heap["cells"][j]
           next   == setNthValueItem(Draft, GridActors(Draft)[1].id, "costs", "Financial",
                                     j - 1, cell.draft)
           closed == [heap["cells"] EXCEPT ![j].editing = FALSE]
       IN /\ cell.editing
          /\ heap' = [ref \in {"obj1", "obj2", "cells"} |->
                        IF ref = "obj1" THEN Draft
                        ELSE IF ref = "obj2" THEN next
                        ELSE RenderCells(next, closed)]
          /\ last' = [op |-> "save", cell |-> j, version |-> cell.version,
                      applied |-> nEdits]
  /\ nEdits' = nEdits + 1
  /\ UNCHANGED <<blueprint, draft>>

\* Cancel of an open cell: setDraft(value); setEditing(false).
OnClickCellCancel ==
  /\ \E j \in DOMAIN heap["cells"] :
       /\ heap["cells"][j].editing
       /\ heap' = [heap EXCEPT !["cells"] =
                     RenderCells(Draft, [heap["cells"] EXCEPT ![j].editing = FALSE])]
       /\ last' = [op |-> "cancel", cell |-> j, version |-> heap["cells"][j].version,
                   applied |-> nEdits]
  /\ UNCHANGED <<blueprint, draft, nEdits>>

CellSpec ==
  CellInit /\ [][OnClickCell \/ OnChangeCell \/ OnClickCellSave \/ OnClickCellCancel]_vars

\* C29: at most one cell is being edited at a time, and every commit of a
\* cell is applied to the document version that was shown when the cell
\* was opened.
C29_EditsSerialized ==
  /\ Cardinality({j \in DOMAIN heap["cells"] : heap["cells"][j].editing}) <= 1
  /\ last.op = "save" => last.version = last.applied

\* C31: when empty or whitespace-only text is written to the slot of the
\* only item of a cost or benefit list, whatever the category of that item,
\* the list is afterwards exactly one item of category Financial with an
\* empty description, and so is not empty.
C31_LastItemDeletedLeavesBlankFinancial ==
  /\ last.op = "setNthValueItem"
  /\ Trim(last.text) = <<>>
  /\ Len(ListBefore) = 1
  /\ last.slot < CountBefore
  => /\ ListAfter = <<CBItem("Financial", <<>>)>>
     /\ ListAfter # <<>>

\* Empty text was written to the Social slot of a list whose only item was
\* a Social one; the list holds one blank Financial item afterwards.
C31_Witness ==
  /\ last.op = "setNthValueItem" /\ last.text = <<>>
  /\ last.type = "Social" /\ last.slot = 0
  /\ ListBefore = <<CBItem("Social", T("b"))>>
  /\ ListAfter = <<CBItem("Financial", <<>>)>>

-----------------------------------------------------------------------------
(***************************************************************************)
(* Repairing an imported draft through the grid.                           *)
(***************************************************************************)
\* The closures the cells and buttons of the grid hand to updateBlueprint
\* when it shows the document bp: the field and slot writes of every
\* column, the process slots, the add button, and the remove button of the
\* columns after the second.
GridCalls(bp) ==
  LET ids   == {bp.actors[p].id : p \in {q \in DOMAIN bp.actors : Has(bp.actors[q], "id")}}
      texts == {<<>>, T("x")}
      slots == {0, 1}
  IN {Call("setNetworkVP", <<>>, "", "", 0, v) : v \in texts}
     \cup {Call(op, id, "", "", 0, v) : op \in {"setActorName", "setActorVP"},
                                        id \in ids, v \in texts}
     \cup UNION {{Call("setNthValueItem", id, kind, type, i, v) : id \in ids, v \in texts}
                   : kind \in {"costs", "benefits"}, type \in {"Financial", "Social"},
                     i \in slots}
     \cup UNION {{Call(op, id, "", "", i, v) : id \in ids, v \in texts}
                   : op \in {"setKpiSlotFlexible", "setServiceSlot"}, i \in slots}
     \cup {Call("setProcessSlot", <<>>, "", "", i, v) : i \in slots, v \in texts}
     \cup {Call("addActor", <<>>, "", "", 0, <<>>)}
     \cup {Call("removeActor", bp.actors[p].id, "", "", 0, <<>>)
             : p \in {q \in DOMAIN bp.actors : q > 2 /\ Has(bp.actors[q], "id")}}

\* The longest sequence of edits tried on an imported draft.
MaxFixEdits == 2

\* The documents that up to n calls of updateBlueprint make of the
\* documents in docs.
RECURSIVE EditedDrafts(_, _)
EditedDrafts(docs, n) ==
  IF n = 0 THEN docs
  ELSE EditedDrafts(
         docs \cup UNION {{Mutate(call, d) : call \in GridCalls(d)} : d \in docs},
         n - 1)

\* C32: whenever an import has put a draft with validator errors in place,
\* some sequence of grid edits (no discard, no new) leads to a draft
\* without errors, on which Save takes effect.
C32_ImportErrorsFixable ==
  last.op = "handleImportFile" /\ last.outcome = "loaded" /\ hasBlocking
    => \E d \in EditedDrafts({Draft}, MaxFixEdits) : ~hasBlockingOf(d)

-----------------------------------------------------------------------------
(***************************************************************************)
(* Sequences of mutators on the template.  "obj1" holds the document       *)
(* before the last call, "obj2" the document after it.                     *)
(***************************************************************************)
\* What the grid shows in a process slot: the name, then in parentheses
\* the names of the participants (the id where no actor has it), those
\* that are empty left out.
getProcessSlotLine(bp, slotIndex) ==
  IF slotIndex >= Len(bp.processes) THEN <<>>
  ELSE LET p      == bp.processes[slotIndex + 1]
           actors == GridActors(bp)
           shown(id) ==
             LET hits == {i \in DOMAIN actors : actors[i].id = id}
             IN IF hits # {} /\ Has(actors[Min(hits)], "name")
                  THEN actors[Min(hits)].name ELSE id
           names == JoinTokens(
                      SelectSeq([k \in DOMAIN p.participantActorIds |->
                                   shown(p.participantActorIds[k])],
                                LAMBDA x : x # <<>>))
       IN IF names # <<>> THEN p.name \o <<" ", "(">> \o names \o <<")">> ELSE p.name

\* The number of calls on the template.
MaxGridEdits == 3

EditInit ==
  /\ heap = [ref \in {"obj1", "obj2"} |-> sampleBlueprint]
  /\ blueprint = "obj1"
  /\ draft = "obj2"
  /\ last = [op |-> "init", call |-> Call("init", <<>>, "", "", 0, <<>>), shown |-> <<>>]
  /\ nEdits = 0

\* updateBlueprint with a closure of the grid: a write to the name or to
\* the first Financial cost of the actor in the third column (where the
\* grid has one), the add button, a remove button, or a process slot that
\* receives nothing, a name, a name with an id and an unknown token, or
\* the text it shows.
OnGridCall ==
  /\ nEdits < MaxGridEdits
  /\ \E call \in
         UNION {{Call("setActorName", Draft.actors[p].id, "", "", 0, v)
                   : v \in {<<>>, T("x"), T("Actor 4")}}
                  \cup {Call("setNthValueItem", Draft.actors[p].id, "costs",
                             "Financial", 0, v)
                          : v \in {<<>>, T("x")}}
                  : p \in DOMAIN Draft.actors \cap {3}}
         \cup {Call("addActor", <<>>, "", "", 0, <<>>)}
         \cup {Call("removeActor", Draft.actors[p].id, "", "", 0, <<>>)
                 : p \in {q \in DOMAIN Draft.actors : q > 2}}
         \cup UNION {{Call("setProcessSlot", <<>>, "", "", i, v)
                        : v \in {<<>>, T("Q"), <<"Q", " ", "(", "A", "3", ",", "zz", ")">>,
                                 getProcessSlotLine(Draft, i)}}
                       : i \in 0..Len(Draft.processes)} :
       /\ heap' = [ref \in {"obj1", "obj2"} |->
                     IF ref = "obj1" THEN Draft ELSE Mutate(call, Draft)]
       /\ last' = [op |-> call.op, call |-> call,
                   shown |-> getProcessSlotLine(Draft, call.slotIndex)]
  /\ nEdits' = nEdits + 1
  /\ UNCHANGED <<blueprint, draft>>

\* addProcessSlot(next)
OnAddProcessSlot ==
  /\ nEdits < MaxGridEdits
  /\ heap' = [ref \in {"obj1", "obj2"} |->
                IF ref = "obj1" THEN Draft ELSE addProcessSlot(Draft)]
  /\ last' = [op |-> "addProcessSlot", call |-> Call("addProcessSlot", <<>>, "", "", 0, <<>>),
              shown |-> <<>>]
  /\ nEdits' = nEdits + 1
  /\ UNCHANGED <<blueprint, draft>>

EditSpec == EditInit /\ [][OnGridCall \/ OnAddProcessSlot]_vars

\* The ids of the actors of bp.
ActorIdsOf(bp) == {bp.actors[i].id : i \in DOMAIN bp.actors}

\* C33: after every sequence of mutators on the template, in which every
\* participant id is the id of an actor, every participant id of every
\* process is still the id of an actor of the document.
C33_ParticipantsAreActors ==
  \A k \in DOMAIN Draft.processes :
    Range(Draft.processes[k].participantActorIds) \subseteq ActorIdsOf(Draft)

\* An actor that took part in a process was removed, after another call
\* had added an actor to every process.
C33_Witness ==
  /\ last.op = "removeActor"
  /\ last.call.actorId \notin ActorIdsOf(Draft)
  /\ \E k \in DOMAIN Committed.processes :
       last.call.actorId \in Range(Committed.processes[k].participantActorIds)
  /\ Len(Committed.actors) = 6

\* C34: when the actor ids of the start document are pairwise distinct,
\* they are pairwise distinct after every sequence of addActor and
\* removeActor calls, and every actor of the start document that is still
\* there (the start document names its actors n1, n2, ...) has the id it
\* started with.
C34_ActorIdsStayUnique ==
  ~HasDuplicateIds(Committed)
    => /\ ~HasDuplicateIds(Draft)
       /\ \A i \in DOMAIN Draft.actors :
            \A k \in DOMAIN Committed.actors :
              Draft.actors[i].name = Committed.actors[k].name
                => Draft.actors[i].id = Committed.actors[k].id

\* An actor was added after one of the start document was removed; the
\* document has as many actors as at the start, with distinct ids.
C34_Witness ==
  /\ last.op = "addActor" /\ last.adds = 1 /\ nEdits = 2
  /\ ~HasDuplicateIds(Committed)
  /\ Len(Draft.actors) = Len(Committed.actors)
  /\ Len(Draft.actors) > 2
  /\ Draft.actors[Len(Draft.actors)].name = T("Click to edit")

\* C35: after every sequence of setProcessSlot and addProcessSlot calls on
\* the template, whose processes are P1..P3, the process ids are pairwise
\* distinct, and a text written over an existing process leaves the id of
\* that process as it was.
C35_ProcessIdsStayUnique ==
  /\ \A i, j \in DOMAIN Draft.processes :
       i # j => Draft.processes[i].id # Draft.processes[j].id
  /\ /\ last.op = "setProcessSlot"
     /\ Trim(last.call.text) # <<>>
     /\ last.call.slotIndex < Len(Committed.processes)
     => Draft.processes[last.call.slotIndex + 1].id
          = Committed.processes[last.call.slotIndex + 1].id

\* C36: in every state reached by edits from the template, committing in
\* the slot of an existing process exactly the text the grid shows for it
\* leaves the name and the participant ids of that process unchanged.
C36_ShownProcessLineRoundTrips ==
  /\ last.op = "setProcessSlot"
  /\ last.call.slotIndex < Len(Committed.processes)
  /\ last.call.text = last.shown
  => /\ Len(Draft.processes) = Len(Committed.processes)
     /\ Draft.processes[last.call.slotIndex + 1].name
          = Committed.processes[last.call.slotIndex + 1].name
     /\ Draft.processes[last.call.slotIndex + 1].participantActorIds
          = Committed.processes[last.call.slotIndex + 1].participantActorIds

=============================================================================
